---------------------------- MODULE Spec2Model ----------------------------
(***************************************************************************)
(* A model of ccc-jj: the bounded diff renderer (src/src/diff.rs), the     *)
(* commit pipeline that drives it (run_commit in src/src/main.rs) and the  *)
(* client of the generative agent (src/src/claude_client.rs and the two    *)
(* generators).                                                            *)
(*                                                                         *)
(* Text is modelled line by line: a file content is a sequence of lines,   *)
(* every line newline-terminated, and a rendered diff is a sequence of     *)
(* rendered lines [k |-> kind, s |-> the line's text].  Len of a string is *)
(* its length in bytes (the lines used are ASCII).                         *)
(***************************************************************************)
EXTENDS Integers, Sequences, FiniteSets, TLC

(***************************************************************************)
(* Program constants (src/src/diff.rs:16-17).                              *)
(***************************************************************************)
MAX_LINES == 50
CONTEXT_LINES == 2

(***************************************************************************)
(* Bounds of the model.                                                    *)
(***************************************************************************)
\* The longest file content, in lines, that a tree-diff entry refers to.
MaxFileLines == 2
\* For the renderer checked on its own: how far past MAX_LINES a file goes.
MaxOverCap == 2

None == [some |-> FALSE]
Some(v) == [some |-> TRUE, v |-> v]

Err == [ok |-> FALSE]
Ok(v) == [ok |-> TRUE, v |-> v]

Min(a, b) == IF a <= b THEN a ELSE b
Max(a, b) == IF a >= b THEN a ELSE b

RECURSIVE Flatten(_)
\* The concatenation of a sequence of sequences.
Flatten(ss) == IF ss = <<>> THEN <<>> ELSE Head(ss) \o Flatten(Tail(ss))

(***************************************************************************)
(* File contents.  BinLine stands for a line holding the byte 0xFF, which  *)
(* no UTF-8 text contains; the other lines are ASCII.                      *)
(***************************************************************************)
BinLine == "#"
LineAlphabet == {"a", "wwwwwwww", BinLine}

RECURSIVE SeqsUpTo(_, _)
\* All sequences over S of length at most n.
SeqsUpTo(S, n) ==
    IF n = 0 THEN {<<>>}
    ELSE LET shorter == SeqsUpTo(S, n - 1)
         IN  shorter \cup {Append(t, x) : t \in {u \in shorter : Len(u) = n - 1}, x \in S}

Contents == SeqsUpTo(LineAlphabet, MaxFileLines)

\* String::from_utf8(content).is_ok()
IsUtf8(content) == \A i \in 1..Len(content) : content[i] # BinLine

RECURSIVE SumBytes(_)
SumBytes(lines) ==
    IF lines = <<>> THEN 0 ELSE Len(Head(lines)) + 1 + SumBytes(Tail(lines))

\* content.len(): every line and its newline.
ByteLen(content) == SumBytes(content)

\* String::from_utf8_lossy(&content).lines().count(), and text.lines() of a
\* decoded text: the lossy decoding replaces bytes within a line and keeps the
\* line breaks.
LineCount(content) == Len(content)

(***************************************************************************)
(* The content store.  A file id names the content stored under it, or is   *)
(* Unreadable: an id whose read fails.                                      *)
(***************************************************************************)
Unreadable == [readable |-> FALSE]
Stored(content) == [readable |-> TRUE, content |-> content]
FileIds == {Stored(c) : c \in Contents} \cup {Unreadable}

\* Mutant: a failed read is taken for an empty file.
read_file_content_Swallow(id) == IF id.readable THEN Ok(id.content) ELSE Ok(<<>>)

\* read_file_content: Ok(bytes), or the store's error.
read_file_content(id) == IF id.readable THEN Ok(id.content) ELSE Err

(***************************************************************************)
(* Rendered lines.                                                         *)
(***************************************************************************)
Line(k, s) == [k |-> k, s |-> s]

\* "diff --git a/{path_str} b/{path_str}"
GitLine(path_str) == Line("git", "diff --git a/" \o path_str \o " b/" \o path_str)

\* The length in bytes of a rendered text: every line and its newline.
TextBytes(text) == SumBytes([i \in 1..Len(text) |-> text[i].s])

\* text.lines().count() of a rendered text.
TextLines(text) == Len(text)

KindCount(text, k) == Cardinality({i \in 1..Len(text) : text[i].k = k})

\* Mutant: the trailer is written for a file of exactly max_lines lines too.
format_added_removed_diff_OffByOne(path_str, id, is_added, max_lines) ==
    LET status == IF is_added THEN "new file" ELSE "deleted file"
        from   == IF is_added THEN "/dev/null" ELSE "a/" \o path_str
        to     == IF is_added THEN "b/" \o path_str ELSE "/dev/null"
        header == << GitLine(path_str), Line("status", status),
                     Line("from", "--- " \o from), Line("to", "+++ " \o to) >>
        read   == read_file_content(id)
    IN  IF ~read.ok THEN Err
        ELSE IF IsUtf8(read.v)
        THEN LET lines  == read.v
                 prefix == IF is_added THEN "+" ELSE "-"
                 kind   == IF is_added THEN "plus" ELSE "minus"
                 taken  == [i \in 1..Min(Len(lines), max_lines) |->
                               Line(kind, prefix \o lines[i])]
                 more   == IF Len(lines) >= max_lines
                           THEN << Line("trailer", "... (" \o ToString(Len(lines) - max_lines)
                                                   \o " more lines)") >>
                           ELSE <<>>
             IN  Ok(header \o taken \o more)
        ELSE Ok(Append(header, Line("binary", "(binary file)")))

(***************************************************************************)
(* format_added_removed_diff: the header, then at most max_lines content   *)
(* lines with their prefix, then the trailer when lines were left out; the *)
(* binary marker when the content is no UTF-8 text.                        *)
(***************************************************************************)
format_added_removed_diff(path_str, id, is_added, max_lines) ==
    LET status == IF is_added THEN "new file" ELSE "deleted file"
        from   == IF is_added THEN "/dev/null" ELSE "a/" \o path_str
        to     == IF is_added THEN "b/" \o path_str ELSE "/dev/null"
        header == << GitLine(path_str), Line("status", status),
                     Line("from", "--- " \o from), Line("to", "+++ " \o to) >>
        read   == read_file_content(id)
    IN  IF ~read.ok THEN Err
        ELSE IF IsUtf8(read.v)
        THEN LET lines  == read.v
                 prefix == IF is_added THEN "+" ELSE "-"
                 kind   == IF is_added THEN "plus" ELSE "minus"
                 taken  == [i \in 1..Min(Len(lines), max_lines) |->
                               Line(kind, prefix \o lines[i])]
                 more   == IF Len(lines) > max_lines
                           THEN << Line("trailer", "... (" \o ToString(Len(lines) - max_lines)
                                                   \o " more lines)") >>
                           ELSE <<>>
             IN  Ok(header \o taken \o more)
        ELSE Ok(Append(header, Line("binary", "(binary file)")))

\* Mutant: the byte limit is tested before the line limit.
collapse_reason_BytesFirst(pattern_match, line_count, byte_size, max_lines, max_bytes) ==
    IF pattern_match THEN "collapsed: matches pattern"
    ELSE IF byte_size > max_bytes THEN "collapsed: exceeds size limit"
    ELSE IF line_count > max_lines THEN "collapsed: exceeds line limit"
    ELSE "collapsed"

(***************************************************************************)
(* collapse_reason                                                         *)
(***************************************************************************)
collapse_reason(pattern_match, line_count, byte_size, max_lines, max_bytes) ==
    IF pattern_match THEN "collapsed: matches pattern"
    ELSE IF line_count > max_lines THEN "collapsed: exceeds line limit"
    ELSE IF byte_size > max_bytes THEN "collapsed: exceeds size limit"
    ELSE "collapsed"

(***************************************************************************)
(* format_collapsed_summary: the header line and the one-line summary.     *)
(***************************************************************************)
format_collapsed_summary(path_str, added, removed, status, reason) ==
    << GitLine(path_str),
       [k |-> "summary",
        s |-> status \o " (+" \o ToString(added) \o " -" \o ToString(removed)
                     \o " lines, " \o reason \o ")",
        status |-> status, added |-> added, removed |-> removed, reason |-> reason] >>

(***************************************************************************)
(* build_collapse_matcher and GlobSet::is_match.  A glob is one of Globs;  *)
(* "[" is the glob that does not compile and is skipped.                   *)
(***************************************************************************)
Paths == <<"a.rs", "b.lock">>

ValidGlob(pattern) == pattern # "["

\* Glob::is_match on the paths of the model.
GlobMatches(pattern, path_str) == pattern = "*.lock" /\ path_str = "b.lock"

build_collapse_matcher(patterns) ==
    IF patterns = <<>> THEN None
    ELSE Some({patterns[i] : i \in {j \in 1..Len(patterns) : ValidGlob(patterns[j])}})

\* collapse_matcher.map(|m| m.is_match(path_str)).unwrap_or(false)
should_collapse(collapse_matcher, path_str) ==
    collapse_matcher.some /\ \E g \in collapse_matcher.v : GlobMatches(g, path_str)

(***************************************************************************)
(* TextDiff::from_lines: a shortest edit script between two texts, as a    *)
(* sequence of [tag, line] with tag "=", "-" or "+".                       *)
(***************************************************************************)
Op(tag, line) == [tag |-> tag, line |-> line]

Changes(ops) == Cardinality({i \in 1..Len(ops) : ops[i].tag # "="})

RECURSIVE DiffOps(_, _)
DiffOps(before, after) ==
    IF before = <<>> THEN [i \in 1..Len(after) |-> Op("+", after[i])]
    ELSE IF after = <<>> THEN [i \in 1..Len(before) |-> Op("-", before[i])]
    ELSE IF Head(before) = Head(after)
         THEN <<Op("=", Head(before))>> \o DiffOps(Tail(before), Tail(after))
         ELSE LET del == <<Op("-", Head(before))>> \o DiffOps(Tail(before), after)
                  ins == <<Op("+", Head(after))>> \o DiffOps(before, Tail(after))
              IN  IF Changes(del) <= Changes(ins) THEN del ELSE ins

TagCount(ops, tag) == Cardinality({i \in 1..Len(ops) : ops[i].tag = tag})

\* UnifiedDiffHunkRange's Display: "start,len", "start" alone for one line.
HunkRange(start0, len) ==
    IF len = 1 THEN ToString(start0 + 1)
    ELSE ToString(IF len = 0 THEN start0 ELSE start0 + 1) \o "," \o ToString(len)

(***************************************************************************)
(* diff.unified_diff().context_radius(CONTEXT_LINES).header(a, b): nothing *)
(* for equal texts; else the two header lines and, for every maximal run   *)
(* of lines within CONTEXT_LINES of a change, a hunk header and the lines. *)
(***************************************************************************)
unified_diff(ops, path_str) ==
    LET n        == Len(ops)
        changed  == {i \in 1..n : ops[i].tag # "="}
        shown(i) == \E j \in changed : i - j <= CONTEXT_LINES /\ j - i <= CONTEXT_LINES
        last(i)  == CHOOSE e \in i..n :
                       /\ \A x \in i..e : shown(x)
                       /\ (e = n \/ ~shown(e + 1))
        olds(S)  == Cardinality({x \in S : ops[x].tag \in {"=", "-"}})
        news(S)  == Cardinality({x \in S : ops[x].tag \in {"=", "+"}})
        hunk(i)  == Line("hunk", "@@ -" \o HunkRange(olds(1..(i - 1)), olds(i..last(i)))
                                 \o " +" \o HunkRange(news(1..(i - 1)), news(i..last(i)))
                                 \o " @@")
        body(i)  == CASE ops[i].tag = "=" -> Line("ctx", " " \o ops[i].line)
                      [] ops[i].tag = "-" -> Line("minus", "-" \o ops[i].line)
                      [] ops[i].tag = "+" -> Line("plus", "+" \o ops[i].line)
        at(i)    == IF ~shown(i) THEN <<>>
                    ELSE IF i = 1 \/ ~shown(i - 1) THEN <<hunk(i), body(i)>>
                    ELSE <<body(i)>>
    IN  IF changed = {} THEN <<>>
        ELSE << Line("from", "--- a/" \o path_str), Line("to", "+++ b/" \o path_str) >>
             \o Flatten([i \in 1..n |-> at(i)])

(***************************************************************************)
(* Tree-diff entries.  A side of an entry is absent, a file, a value that  *)
(* is no file (a symlink, a tree) or an unresolved conflict; values is the *)
(* entry itself failing to read.                                           *)
(***************************************************************************)
Absent   == [t |-> "absent"]
File(id) == [t |-> "file", id |-> id]
Symlink  == [t |-> "symlink"]
Conflict == [t |-> "conflict"]

Sides == {Absent, Symlink, Conflict} \cup {File(id) : id \in FileIds}

\* The two sides of an entry differ, or are files that differ in their
\* executable bit alone.
Values ==
    { [before |-> ba[1], after |-> ba[2]] :
        ba \in {x \in Sides \X Sides : x[1] # x[2] \/ x[1].t = "file"} }

Entries ==
    { [path |-> Paths[p], values |-> v] :
        p \in 1..Len(Paths), v \in {Err} \cup {Ok(x) : x \in Values} }

Rendered(lines, collapsed) == [lines |-> lines, collapsed |-> collapsed]

\* Mutant: a file at the line limit is taken to exceed it.
should_collapse_size_AtLimit(line_count, byte_size, max_diff_lines, max_diff_bytes) ==
    line_count >= max_diff_lines \/ byte_size > max_diff_bytes

\* should_collapse_size (diff.rs 154-155, 177-178, 220-221)
should_collapse_size(line_count, byte_size, max_diff_lines, max_diff_bytes) ==
    line_count > max_diff_lines \/ byte_size > max_diff_bytes

\* Mutant: the binary marker is decided before the collapse.
AddedOrDeleted_BinaryFirst(path_str, id, is_added, pattern_match, max_diff_lines, max_diff_bytes) ==
    LET read == read_file_content(id)
    IN  IF ~read.ok THEN Err
        ELSE LET byte_size  == ByteLen(read.v)
                 line_count == LineCount(read.v)
             IN  IF /\ IsUtf8(read.v)
                    /\ \/ pattern_match
                       \/ should_collapse_size(line_count, byte_size,
                                               max_diff_lines, max_diff_bytes)
                 THEN LET reason == collapse_reason(pattern_match, line_count, byte_size,
                                                    max_diff_lines, max_diff_bytes)
                      IN  Ok(Rendered(
                              IF is_added
                              THEN format_collapsed_summary(path_str, line_count, 0,
                                                            "new file", reason)
                              ELSE format_collapsed_summary(path_str, 0, line_count,
                                                            "deleted file", reason),
                              1))
                 ELSE LET body == format_added_removed_diff(path_str, id, is_added,
                                                            MAX_LINES)
                      IN  IF body.ok THEN Ok(Rendered(body.v, 0)) ELSE Err

\* The (None, File) and (File, None) arms of get_tree_diff.
AddedOrDeleted(path_str, id, is_added, pattern_match, max_diff_lines, max_diff_bytes) ==
    LET read == read_file_content(id)
    IN  IF ~read.ok THEN Err
        ELSE LET byte_size  == ByteLen(read.v)
                 line_count == LineCount(read.v)
             IN  IF \/ pattern_match
                    \/ should_collapse_size(line_count, byte_size,
                                            max_diff_lines, max_diff_bytes)
                 THEN LET reason == collapse_reason(pattern_match, line_count, byte_size,
                                                    max_diff_lines, max_diff_bytes)
                      IN  Ok(Rendered(
                              IF is_added
                              THEN format_collapsed_summary(path_str, line_count, 0,
                                                            "new file", reason)
                              ELSE format_collapsed_summary(path_str, 0, line_count,
                                                            "deleted file", reason),
                              1))
                 ELSE LET body == format_added_removed_diff(path_str, id, is_added,
                                                            MAX_LINES)
                      IN  IF body.ok THEN Ok(Rendered(body.v, 0)) ELSE Err

\* Mutant: the collapse decision of a modified file uses the files' line
\* counts, not the size of the line-level diff.
Modified_FileLength(path_str, before_id, after_id, pattern_match, max_diff_lines, max_diff_bytes) ==
    LET before_read == read_file_content(before_id)
        after_read  == read_file_content(after_id)
    IN  IF ~before_read.ok \/ ~after_read.ok THEN Err
        ELSE IF IsUtf8(before_read.v) /\ IsUtf8(after_read.v)
        THEN LET diff       == DiffOps(before_read.v, after_read.v)
                 added      == TagCount(diff, "+")
                 removed    == TagCount(diff, "-")
                 line_count == Max(LineCount(before_read.v), LineCount(after_read.v))
                 byte_size  == Max(ByteLen(before_read.v), ByteLen(after_read.v))
             IN  IF \/ pattern_match
                    \/ should_collapse_size(line_count, byte_size,
                                            max_diff_lines, max_diff_bytes)
                 THEN Ok(Rendered(
                          format_collapsed_summary(path_str, added, removed, "modified",
                              collapse_reason(pattern_match, line_count, byte_size,
                                              max_diff_lines, max_diff_bytes)),
                          1))
                 ELSE Ok(Rendered(<<GitLine(path_str)>> \o unified_diff(diff, path_str), 0))
        ELSE Ok(Rendered(<< GitLine(path_str),
                            Line("binmod", "(binary file modified)") >>, 0))

\* Mutant: a binary pair over the per-file limits is collapsed like a text.
Modified_BinarySized(path_str, before_id, after_id, pattern_match, max_diff_lines, max_diff_bytes) ==
    LET before_read == read_file_content(before_id)
        after_read  == read_file_content(after_id)
    IN  IF ~before_read.ok \/ ~after_read.ok THEN Err
        ELSE IF IsUtf8(before_read.v) /\ IsUtf8(after_read.v)
        THEN LET diff      == DiffOps(before_read.v, after_read.v)
                 added     == TagCount(diff, "+")
                 removed   == TagCount(diff, "-")
                 byte_size == Max(ByteLen(before_read.v), ByteLen(after_read.v))
             IN  IF \/ pattern_match
                    \/ should_collapse_size(added + removed, byte_size,
                                            max_diff_lines, max_diff_bytes)
                 THEN Ok(Rendered(
                          format_collapsed_summary(path_str, added, removed, "modified",
                              collapse_reason(pattern_match, added + removed, byte_size,
                                              max_diff_lines, max_diff_bytes)),
                          1))
                 ELSE Ok(Rendered(<<GitLine(path_str)>> \o unified_diff(diff, path_str), 0))
        ELSE LET line_count == Max(LineCount(before_read.v), LineCount(after_read.v))
                 byte_size  == Max(ByteLen(before_read.v), ByteLen(after_read.v))
             IN  IF should_collapse_size(line_count, byte_size, max_diff_lines,
                                         max_diff_bytes)
                 THEN Ok(Rendered(
                          format_collapsed_summary(path_str, 0, 0, "modified",
                              collapse_reason(FALSE, line_count, byte_size,
                                              max_diff_lines, max_diff_bytes)),
                          1))
                 ELSE Ok(Rendered(<< GitLine(path_str),
                                     Line("binmod", "(binary file modified)") >>, 0))

\* The (File, File) arm of get_tree_diff.
Modified(path_str, before_id, after_id, pattern_match, max_diff_lines, max_diff_bytes) ==
    LET before_read == read_file_content(before_id)
        after_read  == read_file_content(after_id)
    IN  IF ~before_read.ok \/ ~after_read.ok THEN Err
        ELSE IF IsUtf8(before_read.v) /\ IsUtf8(after_read.v)
        THEN LET diff      == DiffOps(before_read.v, after_read.v)
                 added     == TagCount(diff, "+")
                 removed   == TagCount(diff, "-")
                 byte_size == Max(ByteLen(before_read.v), ByteLen(after_read.v))
             IN  IF \/ pattern_match
                    \/ should_collapse_size(added + removed, byte_size,
                                            max_diff_lines, max_diff_bytes)
                 THEN Ok(Rendered(
                          format_collapsed_summary(path_str, added, removed, "modified",
                              collapse_reason(pattern_match, added + removed, byte_size,
                                              max_diff_lines, max_diff_bytes)),
                          1))
                 ELSE Ok(Rendered(<<GitLine(path_str)>> \o unified_diff(diff, path_str), 0))
        ELSE Ok(Rendered(<< GitLine(path_str),
                            Line("binmod", "(binary file modified)") >>, 0))

(***************************************************************************)
(* One iteration of get_tree_diff's loop: the entry's diff_output and      *)
(* whether it was counted as collapsed, or the error that ends the pass.   *)
(***************************************************************************)
ProcessEntry(e, collapse_matcher, max_diff_lines, max_diff_bytes) ==
    IF ~e.values.ok THEN Err
    ELSE LET before == e.values.v.before
             after  == e.values.v.after
             pattern_match == should_collapse(collapse_matcher, e.path)
         IN  CASE before.t = "absent" /\ after.t = "file" ->
                    AddedOrDeleted(e.path, after.id, TRUE, pattern_match,
                                   max_diff_lines, max_diff_bytes)
               [] before.t = "file" /\ after.t = "absent" ->
                    AddedOrDeleted(e.path, before.id, FALSE, pattern_match,
                                   max_diff_lines, max_diff_bytes)
               [] before.t = "file" /\ after.t = "file" ->
                    Modified(e.path, before.id, after.id, pattern_match,
                             max_diff_lines, max_diff_bytes)
               [] OTHER -> Ok(Rendered(<<>>, 0))

(***************************************************************************)
(* Configuration (assets/commit-config.toml, read through the accessors of *)
(* commit_message_generator.rs): the values the model draws from.          *)
(***************************************************************************)
CollapsePatterns == {<<>>, <<"*.lock">>, <<"[", "*.lock">>}
MaxDiffLines == {1, 2}
MaxDiffBytes == {11}
MaxTotalDiffLines == {5, 9}
MaxTotalDiffBytes == {150, 1000}

\* What CommitMessageGenerator::generate may return for a diff.
GeneratedMessages == {None, Some("feat: add thing")}

VARIABLES
    \* run_commit
    pc,               \* where run_commit is: "start", "locked", "diff", "diffed",
                      \* "generate", "commit", "done"
    result,           \* run_commit's return value: "none" until it returns, "Ok", "Err"
    locked_wc,        \* the working-copy mutation lock is held
    collapse_matcher, max_diff_lines, max_diff_bytes,   \* get_tree_diff's arguments
    stream_pos,       \* the index in Paths of the last entry the stream delivered
    entry,            \* the loop's current entry (None before the first)
    diff_output,      \* the current entry's rendering
    output, file_count, collapsed_count,                \* get_tree_diff's locals
    diff,             \* get_tree_diff's return value (None until it returns)
    budget,           \* run_commit's diff_lines, diff_bytes, max_lines, max_bytes
    generator_calls,  \* the number of calls of CommitMessageGenerator::generate
    commit_message,   \* what generate returned
    commits,          \* the number of transactions create_commit committed
    tx,               \* create_commit's transaction: "none", "open" (the rewritten
                      \* commit and the new working-copy commit are written),
                      \* "committed", or "dropped"
    wc_finished       \* the working copy was finished on the new operation

VARIABLES
    \* the repository and what run_commit and create_commit take from it
    head_wc,          \* the working-copy commit of the workspace at the head operation
    wc_commit,        \* run_commit's wc_commit (None until it is loaded)
    snapshot,         \* what run_commit found after the snapshot: whether the tree
                      \* differs from the parent's, and whether wc_commit has a
                      \* description (None until then)
    rewritten         \* the commit create_commit rewrote (None until then)

repoVars == << head_wc, wc_commit, snapshot, rewritten >>

\* The working-copy commits another process may make while the lock is free.
MaxWcCommits == 2

RepoAt == head_wc = 1 /\ wc_commit = None /\ snapshot = None /\ rewritten = None

commitVars == << pc, result, locked_wc, collapse_matcher, max_diff_lines, max_diff_bytes,
                 stream_pos, entry, diff_output, output, file_count, collapsed_count,
                 diff, budget, generator_calls, commit_message, commits, tx, wc_finished >>

written == << commits, tx, wc_finished >>

diffLocals == << stream_pos, entry, diff_output, output, file_count, collapsed_count >>
diffArgs == << collapse_matcher, max_diff_lines, max_diff_bytes >>

NoBudget == [diff_lines |-> 0, diff_bytes |-> 0, max_lines |-> 0, max_bytes |-> 0]

\* The commit pipeline before run_commit starts ("start"), or not run ("idle").
CommitAt(p) ==
    /\ pc = p
    /\ result = "none"
    /\ locked_wc = FALSE
    /\ collapse_matcher = None
    /\ max_diff_lines = 0
    /\ max_diff_bytes = 0
    /\ stream_pos = 0
    /\ entry = None
    /\ diff_output = <<>>
    /\ output = <<>>
    /\ file_count = 0
    /\ collapsed_count = 0
    /\ diff = None
    /\ budget = NoBudget
    /\ generator_calls = 0
    /\ commit_message = None
    /\ commits = 0
    /\ tx = "none"
    /\ wc_finished = FALSE

\* Mutant: a lock still held stays held when run_commit returns.
Return_KeepsLock(r) ==
    /\ pc' = "done"
    /\ result' = r
    /\ UNCHANGED locked_wc

\* run_commit returns r; a lock still held is released as locked_wc goes out
\* of scope.
Return(r) ==
    /\ pc' = "done"
    /\ result' = r
    /\ locked_wc' = FALSE

(***************************************************************************)
(* run_commit, main.rs 641-652: load the repository and the working-copy   *)
(* commit, take the working-copy lock.  Any of the three may fail.         *)
(***************************************************************************)
StartMutation ==
    /\ pc = "start"
    /\ \/ /\ pc' = "locked"
          /\ wc_commit' = Some(head_wc)
          /\ locked_wc' = TRUE
          /\ UNCHANGED result
       \/ Return("Err") /\ UNCHANGED wc_commit
    /\ UNCHANGED << head_wc, snapshot, rewritten >>
    /\ UNCHANGED << diffArgs, diffLocals, diff, budget, generator_calls, commit_message,
                    written >>

(***************************************************************************)
(* run_commit, main.rs 654-701: snapshot, parent tree, the two early exits *)
(* (no changes; a description already set), then the call of get_tree_diff *)
(* with the configured matcher and per-file limits.                        *)
(***************************************************************************)
Snapshot ==
    /\ pc = "locked"
    /\ \/ \* load_base_ignores, snapshot or get_commit failed
          Return("Err") /\ UNCHANGED snapshot
       \/ \* current_tree.tree_ids() == parent_tree.tree_ids()
          /\ \E described \in BOOLEAN :
                snapshot' = Some([changed |-> FALSE, described |-> described])
          /\ Return("Ok")
       \/ \* !wc_commit.description().is_empty()
          /\ snapshot' = Some([changed |-> TRUE, described |-> TRUE])
          /\ Return("Ok")
    /\ UNCHANGED << head_wc, wc_commit, rewritten >>
    /\ UNCHANGED << diffArgs, diffLocals, diff, budget, generator_calls, commit_message,
                    written >>

CallTreeDiff ==
    /\ pc = "locked"
    /\ pc' = "diff"
    /\ snapshot' = Some([changed |-> TRUE, described |-> FALSE])
    /\ UNCHANGED << head_wc, wc_commit, rewritten >>
    /\ \E patterns \in CollapsePatterns : collapse_matcher' = build_collapse_matcher(patterns)
    /\ max_diff_lines' \in MaxDiffLines
    /\ max_diff_bytes' \in MaxDiffBytes
    /\ UNCHANGED << result, locked_wc, diffLocals, diff, budget, generator_calls,
                    commit_message, written >>

\* Mutant: an entry's rendering is put in front of the output so far.
NextEntry_Prepend ==
    /\ pc = "diff"
    /\ ~entry.some
    /\ \E e \in Entries :
          /\ \E i \in (stream_pos + 1)..Len(Paths) : e.path = Paths[i] /\ stream_pos' = i
          /\ entry' = Some(e)
          /\ LET r == ProcessEntry(e, collapse_matcher, max_diff_lines, max_diff_bytes)
             IN  IF r.ok
                 THEN /\ diff_output' = r.v.lines
                      /\ collapsed_count' = collapsed_count + r.v.collapsed
                      /\ file_count' = IF r.v.lines # <<>> THEN file_count + 1 ELSE file_count
                      /\ output' = r.v.lines \o output
                      /\ UNCHANGED << pc, result, locked_wc, diff >>
                 ELSE /\ diff' = Some(Err)
                      /\ Return("Err")
                      /\ UNCHANGED << diff_output, collapsed_count, file_count, output >>
    /\ UNCHANGED << diffArgs, budget, generator_calls, commit_message, written >>

(***************************************************************************)
(* get_tree_diff, one iteration of the loop (diff.rs 142-256): the stream  *)
(* delivers the next entry, in path order; a read error returns it, and    *)
(* the locals stay as they were when the pass was abandoned.               *)
(***************************************************************************)
NextEntry ==
    /\ pc = "diff"
    /\ ~entry.some
    /\ \E e \in Entries :
          /\ \E i \in (stream_pos + 1)..Len(Paths) : e.path = Paths[i] /\ stream_pos' = i
          /\ entry' = Some(e)
          /\ LET r == ProcessEntry(e, collapse_matcher, max_diff_lines, max_diff_bytes)
             IN  IF r.ok
                 THEN /\ diff_output' = r.v.lines
                      /\ collapsed_count' = collapsed_count + r.v.collapsed
                      /\ file_count' = IF r.v.lines # <<>> THEN file_count + 1 ELSE file_count
                      /\ output' = output \o r.v.lines
                      /\ UNCHANGED << pc, result, locked_wc, diff >>
                 ELSE /\ diff' = Some(Err)
                      /\ Return("Err")
                      /\ UNCHANGED << diff_output, collapsed_count, file_count, output >>
    /\ UNCHANGED << diffArgs, budget, generator_calls, commit_message, written >>

\* The end of the loop body (diff.rs 256): the entry and its rendering go out
\* of scope.
EndIteration ==
    /\ pc = "diff"
    /\ entry.some
    /\ entry' = None
    /\ diff_output' = <<>>
    /\ UNCHANGED << pc, result, locked_wc, diffArgs, stream_pos, output, file_count,
                    collapsed_count, diff, budget, generator_calls, commit_message,
                    written >>

\* The stream ends (diff.rs 258-259): get_tree_diff returns Ok(output); output
\* is moved into the return value and the other locals are dropped.
StreamEnd ==
    /\ pc = "diff"
    /\ ~entry.some
    /\ pc' = "diffed"
    /\ diff' = Some(Ok(output))
    /\ output' = <<>>
    /\ file_count' = 0
    /\ collapsed_count' = 0
    /\ UNCHANGED << result, locked_wc, diffArgs, stream_pos, entry, diff_output, budget,
                    generator_calls, commit_message, written >>

\* Mutant: a diff at the limit is refused.
over_budget_Inclusive(diff_lines, diff_bytes, max_lines, max_bytes) ==
    diff_lines >= max_lines \/ diff_bytes > max_bytes

\* The aggregate gate's test (main.rs 716).
over_budget(diff_lines, diff_bytes, max_lines, max_bytes) ==
    diff_lines > max_lines \/ diff_bytes > max_bytes

\* diff.trim().is_empty(): no rendered line is blank.
TrimIsEmpty(text) == text = <<>>

\* Mutant: an empty diff goes through the gate like any other.
AggregateGate_NoEmptyExit ==
    /\ pc = "diffed"
    /\ \E max_lines \in MaxTotalDiffLines, max_bytes \in MaxTotalDiffBytes :
          LET diff_lines == TextLines(diff.v.v)
              diff_bytes == TextBytes(diff.v.v)
          IN  /\ budget' = [diff_lines |-> diff_lines, diff_bytes |-> diff_bytes,
                            max_lines |-> max_lines, max_bytes |-> max_bytes]
              /\ IF over_budget(diff_lines, diff_bytes, max_lines, max_bytes)
                 THEN Return("Err")
                 ELSE /\ locked_wc' = FALSE
                      /\ pc' = "generate"
                      /\ UNCHANGED result
    /\ UNCHANGED << diffArgs, diffLocals, diff, generator_calls, commit_message, written >>

(***************************************************************************)
(* run_commit, main.rs 705-724: the empty-diff exit, the aggregate gate,   *)
(* and the release of the lock before the generator is called.             *)
(***************************************************************************)
AggregateGate ==
    /\ pc = "diffed"
    /\ IF TrimIsEmpty(diff.v.v)
       THEN Return("Ok") /\ UNCHANGED budget
       ELSE \E max_lines \in MaxTotalDiffLines, max_bytes \in MaxTotalDiffBytes :
              LET diff_lines == TextLines(diff.v.v)
                  diff_bytes == TextBytes(diff.v.v)
              IN  /\ budget' = [diff_lines |-> diff_lines, diff_bytes |-> diff_bytes,
                                max_lines |-> max_lines, max_bytes |-> max_bytes]
                  /\ IF over_budget(diff_lines, diff_bytes, max_lines, max_bytes)
                     THEN Return("Err")
                     ELSE /\ locked_wc' = FALSE
                          /\ pc' = "generate"
                          /\ UNCHANGED result
    /\ UNCHANGED << diffArgs, diffLocals, diff, generator_calls, commit_message, written >>

(***************************************************************************)
(* Another process on the same repository (a second run of the program, or *)
(* jj itself) commits an operation that gives the workspace another        *)
(* working-copy commit, while run_commit holds no lock: during the agent   *)
(* call and up to create_commit's load_at_head (main.rs 724-259).          *)
(***************************************************************************)
OtherProcess ==
    /\ pc \in {"generate", "commit"}
    /\ ~locked_wc
    /\ head_wc < MaxWcCommits
    /\ head_wc' = head_wc + 1
    /\ UNCHANGED << commitVars, wc_commit, snapshot, rewritten >>

\* Mutant: without a generated message the run goes on to the commit.
Generate_GoesOn ==
    /\ pc = "generate"
    /\ generator_calls' = generator_calls + 1
    /\ \E m \in GeneratedMessages :
          /\ commit_message' = m
          /\ pc' = "commit" /\ UNCHANGED << result, locked_wc >>
    /\ UNCHANGED << diffArgs, diffLocals, diff, budget, written >>

\* run_commit, main.rs 726-734: generator.generate(&diff); None aborts.
Generate ==
    /\ pc = "generate"
    /\ generator_calls' = generator_calls + 1
    /\ \E m \in GeneratedMessages :
          /\ commit_message' = m
          /\ IF m.some
             THEN pc' = "commit" /\ UNCHANGED << result, locked_wc >>
             ELSE Return("Err")
    /\ UNCHANGED << diffArgs, diffLocals, diff, budget, written >>

(***************************************************************************)
(* run_commit, main.rs 736-742, and create_commit, main.rs 253-312.        *)
(***************************************************************************)
\* create_commit, main.rs 259-286: start a transaction and write into it the
\* working-copy commit rewritten with the message, and a new working-copy
\* commit on top.  Any step may fail, and the transaction is then dropped.
CreateCommit ==
    /\ pc = "commit"
    /\ \/ /\ tx' = "open" /\ pc' = "tx" /\ UNCHANGED << result, locked_wc >>
          /\ rewritten' = Some(head_wc)
       \/ tx' = "dropped" /\ Return("Err") /\ UNCHANGED rewritten
       \/ \* load_at_head failed
          tx' = "none" /\ Return("Err") /\ UNCHANGED rewritten
    /\ UNCHANGED << head_wc, wc_commit, snapshot >>
    /\ UNCHANGED << diffArgs, diffLocals, diff, budget, generator_calls, commit_message,
                    commits, wc_finished >>

\* create_commit, main.rs 288: tx.commit.
CommitTransaction ==
    /\ pc = "tx"
    /\ \/ /\ tx' = "committed" /\ commits' = commits + 1
          /\ pc' = "finish" /\ UNCHANGED << result, locked_wc >>
       \/ tx' = "dropped" /\ UNCHANGED commits /\ Return("Err")
    /\ UNCHANGED << diffArgs, diffLocals, diff, budget, generator_calls, commit_message,
                    wc_finished >>

\* create_commit, main.rs 291: the working-copy lock is taken again.
StartFinish ==
    /\ pc = "finish"
    /\ \/ locked_wc' = TRUE /\ pc' = "finishing" /\ UNCHANGED result
       \/ Return("Err")
    /\ UNCHANGED << diffArgs, diffLocals, diff, budget, generator_calls, commit_message,
                    written >>

\* create_commit, main.rs 292-311: locked_wc.finish, which gives the lock up,
\* and the report of the commit.
FinishWorkingCopy ==
    /\ pc = "finishing"
    /\ \/ wc_finished' = TRUE /\ Return("Ok")
       \/ UNCHANGED wc_finished /\ Return("Err")
    /\ UNCHANGED << diffArgs, diffLocals, diff, budget, generator_calls, commit_message,
                    commits, tx >>

(***************************************************************************)
(* run_bookmark, main.rs 345-427.  A bookmark name is its sequence of      *)
(* characters.                                                             *)
(***************************************************************************)
Prefixes == {None, Some(<<"p">>)}
ExistingNames == {None, Some(<<"x", "-", "y">>), Some(<<"p", "/", "x", "-", "y">>)}
\* What BookmarkGenerator::generate may return.
GeneratedNames == {None, Some(<<"a", "-", "b">>), Some(<<"a", "-", "b", "-", "c">>)}

VARIABLES
    bpc,             \* where run_bookmark is: "start", "resolved", "generate",
                     \* "named", "done"
    bresult,         \* run_bookmark's return value: "none" until it returns
    prefix, dry_run, \* its arguments
    existing_name,   \* find_existing_bookmark_in_range's value
    name_calls,      \* the number of calls of BookmarkGenerator::generate
    bookmark_name,   \* what generate returned
    printed,         \* the names printed on a dry run
    bookmarks        \* the bookmarks set: name and whether the name was generated

bookmarkVars == << bpc, bresult, prefix, dry_run, existing_name, name_calls,
                   bookmark_name, printed, bookmarks >>

bookmarkArgs == << prefix, dry_run >>

BookmarkAt(p) ==
    /\ bpc = p
    /\ bresult = "none"
    /\ existing_name = None
    /\ name_calls = 0
    /\ bookmark_name = None
    /\ printed = <<>>
    /\ bookmarks = <<>>

BookmarkReturn(r) == bpc' = "done" /\ bresult' = r

\* starts_with
StartsWith(chars, start) ==
    Len(start) <= Len(chars) /\ SubSeq(chars, 1, Len(start)) = start

\* main.rs 353-366: load the repository, resolve the range and the target,
\* look for a bookmark in the range.  Each step may fail.
ResolveTarget ==
    /\ bpc = "start"
    /\ \/ BookmarkReturn("Err") /\ UNCHANGED existing_name
       \/ /\ existing_name' \in ExistingNames
          /\ bpc' = "resolved"
          /\ UNCHANGED bresult
    /\ UNCHANGED << bookmarkArgs, name_calls, bookmark_name, printed, bookmarks >>

\* Mutant: the dry run prints the name and sets the bookmark as well.
SetOrPrint_DryRunSets(final_name, is_generated) ==
    /\ printed' = IF dry_run THEN Append(printed, final_name) ELSE printed
    /\ \E existed \in {e \in BOOLEAN : existing_name = Some(final_name) => e} :
          /\ bookmarks' = Append(bookmarks, [name |-> final_name,
                                             generated |-> is_generated,
                                             existed |-> existed])
          /\ BookmarkReturn("Ok")

\* set_bookmark (main.rs 620-638) for a name, or its printing on a dry run.
\* existed is whether the view had a local bookmark of that name: it has the
\* one found in the range, and may have any other outside of it.
SetOrPrint(final_name, is_generated) ==
    IF dry_run
    THEN /\ printed' = Append(printed, final_name)
         /\ BookmarkReturn("Ok")
         /\ UNCHANGED bookmarks
    ELSE /\ UNCHANGED printed
         /\ \/ \E existed \in {e \in BOOLEAN : existing_name = Some(final_name) => e} :
                  /\ bookmarks' = Append(bookmarks, [name |-> final_name,
                                                     generated |-> is_generated,
                                                     existed |-> existed])
                  /\ BookmarkReturn("Ok")
            \/ UNCHANGED bookmarks /\ BookmarkReturn("Err")    \* tx.commit failed

\* main.rs 366-389: a bookmark of the range is moved to the target.
MoveExisting ==
    /\ bpc = "resolved"
    /\ existing_name.some
    /\ LET final_name == IF prefix.some
                            /\ ~StartsWith(existing_name.v, prefix.v \o <<"/">>)
                         THEN prefix.v \o <<"/">> \o existing_name.v
                         ELSE existing_name.v
       IN  SetOrPrint(final_name, FALSE)
    /\ UNCHANGED << bookmarkArgs, existing_name, name_calls, bookmark_name >>

\* main.rs 391-398: the summaries of the range's commits; none is an error.
CommitSummaries ==
    /\ bpc = "resolved"
    /\ ~existing_name.some
    /\ \/ BookmarkReturn("Err")
       \/ bpc' = "generate" /\ UNCHANGED bresult
    /\ UNCHANGED << bookmarkArgs, existing_name, name_calls, bookmark_name, printed,
                    bookmarks >>

\* main.rs 400-405: generator.generate(&commit_summaries); None aborts.
GenerateName ==
    /\ bpc = "generate"
    /\ name_calls' = name_calls + 1
    /\ \E name \in GeneratedNames :
          /\ bookmark_name' = name
          /\ IF name.some
             THEN bpc' = "named" /\ UNCHANGED bresult
             ELSE BookmarkReturn("Err")
    /\ UNCHANGED << bookmarkArgs, existing_name, printed, bookmarks >>

\* main.rs 407-426: the prefix, then the dry run's print or set_bookmark.
SetGenerated ==
    /\ bpc = "named"
    /\ LET name       == IF bookmark_name.some THEN bookmark_name.v ELSE <<>>
           final_name == IF prefix.some THEN prefix.v \o <<"/">> \o name ELSE name
       IN  SetOrPrint(final_name, TRUE)
    /\ UNCHANGED << bookmarkArgs, existing_name, name_calls, bookmark_name >>

(***************************************************************************)
(* JSON values (serde_json::Value).  A JSON string is its sequence of      *)
(* characters.                                                             *)
(***************************************************************************)
JNull == [t |-> "null"]
JNum(n) == [t |-> "number", n |-> n]
JStr(chars) == [t |-> "string", s |-> chars]
JArr(items) == [t |-> "array", items |-> items]
JObj(fields) == [t |-> "object", fields |-> fields]

\* Value::get(key): a field of an object, None for any other value.
Get(v, key) ==
    IF v.t = "object" /\ key \in DOMAIN v.fields THEN Some(v.fields[key]) ELSE None

\* Value::as_str
as_str(v) == IF v.t = "string" THEN Some(v.s) ELSE None

\* Value::as_array
as_array(v) == IF v.t = "array" THEN Some(v.items) ELSE None

ResultTag == <<"r", "e", "s", "u", "l", "t">>
AssistantTag == <<"a", "s", "s", "i", "s", "t", "a", "n", "t">>

\* |obj| obj.get("type").and_then(|v| v.as_str()) == Some("result")
is_result(obj) ==
    LET ty == Get(obj, "type")
    IN  ty.some /\ as_str(ty.v) = Some(ResultTag)

\* Mutant: the scan takes the first result element, not the last.
rfind_First(arr) ==
    LET results == {i \in 1..Len(arr) : is_result(arr[i])}
    IN  IF results = {} THEN None
        ELSE Some(arr[CHOOSE i \in results : \A j \in results : i <= j])

RECURSIVE rfind(_)
\* arr.iter().rfind(is_result): the scan from the end.
rfind(arr) ==
    IF arr = <<>> THEN None
    ELSE IF is_result(arr[Len(arr)]) THEN Some(arr[Len(arr)])
    ELSE rfind(SubSeq(arr, 1, Len(arr) - 1))

\* Mutant: a structured_output of null is taken for a missing field.
structured_NullIsMissing(json) ==
    LET field == IF as_array(json).some
                 THEN LET found == rfind(as_array(json).v)
                      IN  IF found.some THEN Get(found.v, "structured_output") ELSE None
                 ELSE Get(json, "structured_output")
    IN  IF field.some /\ field.v = JNull THEN None ELSE field

\* The structured_output of a parsed output (claude_client.rs 92-98,
\* bookmark_generator.rs 130-138).
structured(json) ==
    IF as_array(json).some
    THEN LET found == rfind(as_array(json).v)
         IN  IF found.some THEN Get(found.v, "structured_output") ELSE None
    ELSE Get(json, "structured_output")

(***************************************************************************)
(* Whitespace and str::trim, on sequences of characters.                   *)
(***************************************************************************)
Whitespace == {" ", "\n", "\t"}

RECURSIVE TrimStart(_)
TrimStart(chars) ==
    IF chars # <<>> /\ Head(chars) \in Whitespace THEN TrimStart(Tail(chars)) ELSE chars

RECURSIVE TrimEnd(_)
TrimEnd(chars) ==
    IF chars # <<>> /\ chars[Len(chars)] \in Whitespace
    THEN TrimEnd(SubSeq(chars, 1, Len(chars) - 1))
    ELSE chars

Trim(chars) == TrimEnd(TrimStart(chars))

(***************************************************************************)
(* What the agent may write to its standard output: text that is no JSON,  *)
(* or a JSON document.  A stdout is its text and what serde_json::from_str *)
(* reads from it; JsonText stands for the text of a JSON document.         *)
(***************************************************************************)
\* The longest event array the agent writes.
MaxEvents == 2

BookmarkPayload == JObj([k \in {"bookmark"} |-> JStr(<<"a", "-", "b">>)])
\* A name, a blank name, a number where the name should be, and null.
Payloads ==
    { BookmarkPayload,
      JObj([k \in {"bookmark"} |-> JStr(<<" ">>)]),
      JObj([k \in {"bookmark"} |-> JNum(1)]),
      JNull }

TypeValues == {JStr(ResultTag), JStr(AssistantTag), JNum(1)}

\* Objects with any of the fields "type" and "structured_output".
EventObjects ==
    {JObj(<<>>)}
    \cup {JObj([k \in {"type"} |-> ty]) : ty \in TypeValues}
    \cup {JObj([k \in {"structured_output"} |-> so]) : so \in Payloads}
    \cup {JObj([k \in {"type", "structured_output"} |->
                   IF k = "type" THEN ty ELSE so]) : ty \in TypeValues, so \in Payloads}

Documents ==
    EventObjects \cup {JNull, JNum(1), JStr(ResultTag)}
    \cup {JArr(items) : items \in SeqsUpTo(EventObjects \cup {JNum(1)}, MaxEvents)}

JsonText == <<"{", "}">>
PlainTexts == { <<>>, <<" ", "\n">>, <<"o", "o", "p", "s">>,
                <<" ", "f", "i", "x", ":", " ", "x", "\n">> }

Stdouts ==
    {[text |-> t, json |-> None] : t \in PlainTexts}
    \cup {[text |-> JsonText, json |-> Some(d)] : d \in Documents}

\* serde_json::from_str::<Value>(raw_output)
from_str(raw_output) == IF raw_output.json.some THEN Ok(raw_output.json.v) ELSE Err

\* ExitStatus: an exit code, -1 for a child killed by a signal.
ExitStatuses == {0, 1, -1}

\* Mutant: the exit status is not looked at.
success_Ignored(status) == TRUE

success(status) == status = 0

Output(status, stdout) == [status |-> status, stdout |-> stdout]

(***************************************************************************)
(* parse_structured_output (claude_client.rs 89-112)                       *)
(***************************************************************************)
parse_structured_output(raw_output) ==
    LET json == from_str(raw_output)
    IN  IF json.ok THEN structured(json.v) ELSE None

\* invoke_claude's match on the subprocess result (claude_client.rs 60-82).
invoke_claude_result(io) ==
    IF io.ok
    THEN IF ~success(io.v.status) THEN None ELSE parse_structured_output(io.v.stdout)
    ELSE None

\* BookmarkGenerator::try_generate's match (bookmark_generator.rs 112-170).
bookmark_result(io) ==
    IF io.ok
    THEN IF ~success(io.v.status) THEN None
         ELSE LET json == from_str(io.v.stdout)
              IN  IF json.ok
                  THEN LET so == structured(json.v)
                       IN  IF so.some
                           THEN LET field == Get(so.v, "bookmark")
                                    text  == IF field.some /\ as_str(field.v).some
                                             THEN as_str(field.v).v ELSE <<>>
                                    bookmark == Trim(text)
                                IN  IF bookmark = <<>> THEN None ELSE Some(bookmark)
                           ELSE None
                  ELSE None
    ELSE None

\* Mutant: an empty message is returned like any other.
commit_result_KeepEmpty(io) ==
    IF io.ok
    THEN IF ~success(io.v.status) THEN None ELSE Some(Trim(io.v.stdout.text))
    ELSE None

\* CommitMessageGenerator::try_generate's match (commit_message_generator.rs
\* 154-181): the trimmed standard output is the message.
commit_result(io) ==
    IF io.ok
    THEN IF ~success(io.v.status) THEN None
         ELSE LET message == Trim(io.v.stdout.text)
              IN  IF message = <<>> THEN None ELSE Some(message)
    ELSE None

Callers == {"invoke_claude", "BookmarkGenerator", "CommitMessageGenerator"}

result_of(who, io) ==
    CASE who = "invoke_claude" -> invoke_claude_result(io)
      [] who = "BookmarkGenerator" -> bookmark_result(io)
      [] who = "CommitMessageGenerator" -> commit_result(io)

(***************************************************************************)
(* The response validators.  Text is a sequence of characters.             *)
(***************************************************************************)
LowerAz == << "a", "b", "c", "d", "e", "f", "g", "h", "i", "j", "k", "l", "m",
              "n", "o", "p", "q", "r", "s", "t", "u", "v", "w", "x", "y", "z" >>
UpperAz == << "A", "B", "C", "D", "E", "F", "G", "H", "I", "J", "K", "L", "M",
              "N", "O", "P", "Q", "R", "S", "T", "U", "V", "W", "X", "Y", "Z" >>
Digits09 == << "0", "1", "2", "3", "4", "5", "6", "7", "8", "9" >>

\* The character classes [a-z] and [a-z0-9].
ClassAz == {LowerAz[i] : i \in 1..Len(LowerAz)}
ClassAz09 == ClassAz \cup {Digits09[i] : i \in 1..Len(Digits09)}

\* The end of the longest run of characters of a class that starts at i
\* (i - 1 when there is none): a greedy `[..]*`.
RECURSIVE RunEnd(_, _, _)
RunEnd(chars, i, class) ==
    IF i <= Len(chars) /\ chars[i] \in class THEN RunEnd(chars, i + 1, class) ELSE i - 1

\* message.lines().next().unwrap_or("")
FirstLine(message) ==
    LET breaks == {i \in 1..Len(message) : message[i] = "\n"}
    IN  IF breaks = {} THEN message
        ELSE SubSeq(message, 1, (CHOOSE i \in breaks : \A j \in breaks : i <= j) - 1)

\* Mutant: the separator is the colon alone, `:.+`.
CONVENTIONAL_COMMIT_RE_ColonOnly(line) ==
    LET n         == Len(line)
        type_end  == RunEnd(line, 1, ClassAz)
        closing   == {k \in (type_end + 2)..n : line[k] = ")"}
        scope_end == IF type_end < n /\ line[type_end + 1] = "(" /\ closing # {}
                     THEN LET close == CHOOSE k \in closing : \A j \in closing : k <= j
                          IN  IF close > type_end + 2 THEN close ELSE type_end
                     ELSE type_end
        bang_end  == IF scope_end < n /\ line[scope_end + 1] = "!"
                     THEN scope_end + 1 ELSE scope_end
    IN  /\ type_end >= 1
        /\ bang_end + 2 <= n
        /\ line[bang_end + 1] = ":"
        /\ line[bang_end + 2] # "\n"

\* CONVENTIONAL_COMMIT_RE.is_match(line), for
\* ^[a-z]+(?:\([^)]+\))?(?:!)?:\s.+ : the type is the longest run of [a-z];
\* a scope runs from "(" to the first ")" and holds a character at least;
\* no choice the matcher could go back on leads to another match.
CONVENTIONAL_COMMIT_RE(line) ==
    LET n         == Len(line)
        type_end  == RunEnd(line, 1, ClassAz)
        closing   == {k \in (type_end + 2)..n : line[k] = ")"}
        scope_end == IF type_end < n /\ line[type_end + 1] = "(" /\ closing # {}
                     THEN LET close == CHOOSE k \in closing : \A j \in closing : k <= j
                          IN  IF close > type_end + 2 THEN close ELSE type_end
                     ELSE type_end
        bang_end  == IF scope_end < n /\ line[scope_end + 1] = "!"
                     THEN scope_end + 1 ELSE scope_end
    IN  /\ type_end >= 1
        /\ bang_end + 3 <= n
        /\ line[bang_end + 1] = ":"
        /\ line[bang_end + 2] \in Whitespace
        /\ line[bang_end + 3] # "\n"

\* CONFIG.generator.default_commit_message
DefaultCommitMessages == { <<"w", "i", "p">>, <<"c", "h", "o", "r", "e", ":", " ", "x">> }

\* Mutant: the default message is followed by the first line only.
CommitMessageGenerator_generate_FirstLine(tried, default_commit_message) ==
    IF tried.some
    THEN LET message    == tried.v
             first_line == Trim(FirstLine(message))
         IN  Some(IF CONVENTIONAL_COMMIT_RE(first_line) THEN message
                  ELSE default_commit_message \o <<"\n", "\n">> \o first_line)
    ELSE None

\* CommitMessageGenerator::generate, applied to what try_generate returned.
CommitMessageGenerator_generate(tried, default_commit_message) ==
    IF tried.some
    THEN LET message    == tried.v
             first_line == Trim(FirstLine(message))
         IN  Some(IF CONVENTIONAL_COMMIT_RE(first_line) THEN message
                  ELSE default_commit_message \o <<"\n", "\n">> \o message)
    ELSE None

\* char::to_lowercase on a letter A-Z; other characters of the texts here
\* have no lower case.
to_lowercase(chars) ==
    [i \in 1..Len(chars) |->
        IF \E k \in 1..Len(UpperAz) : UpperAz[k] = chars[i]
        THEN LowerAz[CHOOSE k \in 1..Len(UpperAz) : UpperAz[k] = chars[i]]
        ELSE chars[i]]

\* The end of the segment [a-z][a-z0-9]* that starts at i (i - 1 when none does).
SegmentEnd(name, i) ==
    IF i <= Len(name) /\ name[i] \in ClassAz THEN RunEnd(name, i + 1, ClassAz09) ELSE i - 1

\* The number of groups -[a-z][a-z0-9]* from the end e of a segment to the
\* end of the name; -1 when what is left is no such groups.
RECURSIVE HyphenGroups(_, _)
HyphenGroups(name, e) ==
    IF e = Len(name) THEN 0
    ELSE IF name[e + 1] = "-" /\ SegmentEnd(name, e + 2) >= e + 2
         THEN LET more == HyphenGroups(name, SegmentEnd(name, e + 2))
              IN  IF more < 0 THEN -1 ELSE more + 1
         ELSE -1

\* Mutant: the group may repeat six times, {1,6}.
VALID_BOOKMARK_RE_SixGroups(name) ==
    /\ SegmentEnd(name, 1) >= 1
    /\ HyphenGroups(name, SegmentEnd(name, 1)) \in 1..6

\* VALID_BOOKMARK_RE.is_match(name), for ^[a-z][a-z0-9]*(-[a-z][a-z0-9]*){1,5}$
VALID_BOOKMARK_RE(name) ==
    /\ SegmentEnd(name, 1) >= 1
    /\ HyphenGroups(name, SegmentEnd(name, 1)) \in 1..5

\* Mutant: the name is checked as it was generated, without to_lowercase.
BookmarkGenerator_generate_AsWritten(tried) ==
    IF tried.some
    THEN LET name == Trim(tried.v)
         IN  IF VALID_BOOKMARK_RE(name) THEN Some(name) ELSE None
    ELSE None

\* BookmarkGenerator::generate, applied to what try_generate returned.
BookmarkGenerator_generate(tried) ==
    IF tried.some
    THEN LET name == to_lowercase(Trim(tried.v))
         IN  IF VALID_BOOKMARK_RE(name) THEN Some(name) ELSE None
    ELSE None

\* What a request is made of: the configured base arguments, the model, the
\* schema and the prompt (ClaudeRequest; the generators' fields).
BaseArgs == {<<>>, <<"-p">>}
Model == "sonnet"
JSON_SCHEMA == "{schema}"
Prompt == "prompt text"

\* The argument vector of Command::new(command): .args(args).arg("--model")
\* .arg(model), and .arg("--json-schema").arg(schema) in invoke_claude and in
\* the bookmark generator; the commit message generator passes no schema.
argv(who, args) ==
    args \o <<"--model", Model>>
         \o (IF who = "CommitMessageGenerator" THEN <<>> ELSE <<"--json-schema", JSON_SCHEMA>>)

VARIABLES
    \* One call of the agent: invoke_claude or a generator's try_generate.
    caller,     \* which of the three functions runs
    base_args,  \* the configured base arguments
    apc,        \* where it is: "start", "spawn", "write", "close", "wait", "match",
                \* "returned"
    spinner,    \* the progress indicator: "none", "ticking", "cleared", or
                \* "dropped" (gone out of scope without finish_and_clear)
    failed_at,  \* the step that failed ("template", "spawn", "write", "wait") or "none"
    child,      \* the spawned process: None, or its argument vector, what it has
                \* read on its standard input, whether that pipe is still open,
                \* and whether the caller has begun to wait for it
    io,         \* the result of spawn().and_then(...): None until it is there
    ret,        \* the function's return value: None until it returns, then Some(value)
    checked,    \* the texts that generate has matched against its grammar
    generated   \* what generate returns: None until it does, then Some(value)

validation == << checked, generated >>
agentVars == << caller, base_args, apc, spinner, failed_at, child, io, ret, validation >>

AgentAt(p) ==
    /\ apc = p
    /\ spinner = "none"
    /\ failed_at = "none"
    /\ child = None
    /\ io = None
    /\ ret = None
    /\ checked = {}
    /\ generated = None

\* ProgressBar::new_spinner(), set_style(..template(..).ok()?), set_message,
\* enable_steady_tick.  When the template does not build, `?` returns None
\* there and then, and the spinner goes out of scope.
StartSpinner ==
    /\ UNCHANGED validation
    /\ apc = "start"
    /\ \/ /\ spinner' = "ticking"
          /\ apc' = "spawn"
          /\ UNCHANGED << failed_at, ret >>
       \/ /\ spinner' = "dropped"
          /\ failed_at' = "template"
          /\ apc' = "returned"
          /\ ret' = Some(None)
    /\ UNCHANGED << caller, base_args, child, io >>

\* Command::new(..).spawn(): on an error and_then is skipped.
Spawn ==
    /\ UNCHANGED validation
    /\ apc = "spawn"
    /\ \/ /\ apc' = "write"
          /\ child' = Some([argv |-> argv(caller, base_args), stdin |-> <<>>,
                            stdin_open |-> TRUE, waited |-> FALSE])
          /\ UNCHANGED << failed_at, io >>
       \/ apc' = "match" /\ failed_at' = "spawn" /\ io' = Some(Err) /\ UNCHANGED child
    /\ UNCHANGED << caller, base_args, spinner, ret >>

\* stdin.write_all(prompt)?: an error leaves the closure, and the pipe, which
\* child.stdin.take() moved out of the child, is closed as it goes out of scope.
WritePrompt ==
    /\ UNCHANGED validation
    /\ apc = "write"
    /\ \/ /\ apc' = "close"
          /\ child' = Some([child.v EXCEPT !.stdin = <<Prompt>>])
          /\ UNCHANGED << failed_at, io >>
       \/ /\ apc' = "match" /\ failed_at' = "write" /\ io' = Some(Err)
          /\ child' = Some([child.v EXCEPT !.stdin_open = FALSE])
    /\ UNCHANGED << caller, base_args, spinner, ret >>

\* Mutant: the pipe is left open when the caller starts to wait.
CloseStdin_LeftOpen ==
    /\ UNCHANGED validation
    /\ apc = "close"
    /\ apc' = "wait"
    /\ UNCHANGED << caller, base_args, spinner, failed_at, child, io, ret >>

\* The end of the `if let Some(mut stdin)` block: stdin is dropped, which
\* closes the pipe.
CloseStdin ==
    /\ UNCHANGED validation
    /\ apc = "close"
    /\ apc' = "wait"
    /\ child' = Some([child.v EXCEPT !.stdin_open = FALSE])
    /\ UNCHANGED << caller, base_args, spinner, failed_at, io, ret >>

\* child.wait_with_output(): the exit status and the captured output.
WaitWithOutput ==
    /\ UNCHANGED validation
    /\ apc = "wait"
    /\ apc' = "match"
    /\ child' = Some([child.v EXCEPT !.waited = TRUE])
    /\ \/ \E status \in ExitStatuses, stdout \in Stdouts :
             io' = Some(Ok(Output(status, stdout))) /\ UNCHANGED failed_at
       \/ io' = Some(Err) /\ failed_at' = "wait"
    /\ UNCHANGED << caller, base_args, spinner, ret >>

\* The match on the result, spinner.finish_and_clear(), and the return.
MatchAndReturn ==
    /\ UNCHANGED validation
    /\ apc = "match"
    /\ apc' = "returned"
    /\ spinner' = "cleared"
    /\ ret' = Some(result_of(caller, io.v))
    /\ UNCHANGED << caller, base_args, failed_at, child, io >>

\* generate's closure on what try_generate returned: and_then in the bookmark
\* generator, map in the commit message generator.  It runs for Some only,
\* and matches the name, or the message's first line, against the grammar.
Validate ==
    /\ apc = "returned"
    /\ caller \in {"BookmarkGenerator", "CommitMessageGenerator"}
    /\ apc' = "generated"
    /\ checked' = IF ~ret.v.some THEN {}
                  ELSE IF caller = "BookmarkGenerator"
                       THEN {to_lowercase(Trim(ret.v.v))}
                       ELSE {Trim(FirstLine(ret.v.v))}
    /\ \E default_commit_message \in DefaultCommitMessages :
          generated' = Some(IF caller = "BookmarkGenerator"
                            THEN BookmarkGenerator_generate(ret.v)
                            ELSE CommitMessageGenerator_generate(ret.v,
                                                                 default_commit_message))
    /\ UNCHANGED << caller, base_args, spinner, failed_at, child, io, ret >>

(***************************************************************************)
(* The pure functions of diff.rs applied to arguments of their own.        *)
(***************************************************************************)
VARIABLES
    fn,      \* the function applied
    args,    \* its arguments
    value    \* its value: None until it is applied

pureVars == << fn, args, value >>

\* A text of n distinct lines.
Numbered(n) == [i \in 1..n |-> "l" \o ToString(i)]

ApplyCollapseReason ==
    /\ fn = "collapse_reason"
    /\ ~value.some
    /\ value' = Some(collapse_reason(args.pattern_match, args.line_count, args.byte_size,
                                     args.max_lines, args.max_bytes))
    /\ UNCHANGED << fn, args >>

ApplyFormatAddedRemoved ==
    /\ fn = "format_added_removed_diff"
    /\ ~value.some
    /\ value' = Some(format_added_removed_diff(args.path_str, args.id, args.is_added,
                                               args.max_lines))
    /\ UNCHANGED << fn, args >>

\* The longest text drawn character by character.
MaxTextLen == 4

\* All the concatenations of one part of each set, in order.
RECURSIVE Joined(_)
Joined(sets) ==
    IF sets = <<>> THEN {<<>>}
    ELSE {h \o t : h \in Head(sets), t \in Joined(Tail(sets))}

\* What try_generate returns: a text that is trimmed and not empty.
Trimmed(texts) == {t \in texts : t # <<>> /\ Trim(t) = t}

\* Commit messages: every short text, and titles put together from a type,
\* a scope, a "!", a separator, a description and a body, well-formed or not.
CommitMessages ==
    Trimmed(SeqsUpTo({"a", "A", "(", ")", "!", ":", " ", "\n"}, MaxTextLen)
            \cup Joined(<< { <<>>, <<"a">>, <<"f", "i", "x">>, <<"A">>, <<"a", "1">> },
                           { <<>>, <<"(", ")">>, <<"(", "x", ")">>, <<"(", "x">>,
                             <<"(", "x", ")", ")">>, <<"(", "A", " ", ")">> },
                           { <<>>, <<"!">>, <<"!", "!">> },
                           { <<>>, <<":">>, <<":", " ">>, <<":", "\t">>, <<" ", ":">>,
                             <<":", " ", " ">> },
                           { <<>>, <<"x">> },
                           { <<>>, <<"\n", "y">>, <<"\n", "\n", "a", ":", " ", "x">> } >>))

ApplyCommitGenerate ==
    /\ fn = "CommitMessageGenerator::generate"
    /\ ~value.some
    /\ value' = Some(CommitMessageGenerator_generate(args.tried, args.default_commit_message))
    /\ UNCHANGED << fn, args >>

\* The most segments a drawn bookmark name has.
MaxSegments == 7

\* Segments joined by hyphens.
RECURSIVE JoinHyphen(_)
JoinHyphen(segments) ==
    IF segments = <<>> THEN <<>>
    ELSE IF Len(segments) = 1 THEN segments[1]
    ELSE segments[1] \o <<"-">> \o JoinHyphen(Tail(segments))

\* Bookmark names: every short text, names of 1 to MaxSegments segments "a"
\* of which one may be another segment, well-formed or not, and the names of
\* the validator's examples.
BookmarkNames ==
    Trimmed(SeqsUpTo({"a", "A", "1", "-", " ", "_"}, MaxTextLen)
            \cup {JoinHyphen([i \in 1..n |-> IF i = k THEN odd ELSE <<"a">>]) :
                     n \in 1..MaxSegments, k \in 1..MaxSegments,
                     odd \in { <<"a">>, <<"a", "1">>, <<"1", "a">>, <<"A">>, <<>>,
                               <<"a", "_">>, <<"b", "Z", "9">> }}
            \cup { JoinHyphen(<< <<"a", "d", "d">>, <<"u", "s", "e", "r">>,
                                 <<"a", "u", "t", "h">> >>),
                     JoinHyphen(<< <<"A", "d", "d">>, <<"U", "s", "e", "r">> >>),
                     JoinHyphen([i \in 1..7 |->
                                    << <<"a">>, <<"b">>, <<"c">>, <<"d">>, <<"e">>,
                                       <<"f">>, <<"g">> >>[i]]) })

ApplyBookmarkGenerate ==
    /\ fn = "BookmarkGenerator::generate"
    /\ ~value.some
    /\ value' = Some(BookmarkGenerator_generate(args.tried))
    /\ UNCHANGED << fn, args >>

(***************************************************************************)
(* text_formatter.rs: detect_list_indent, the hanging indent of a line.    *)
(***************************************************************************)
\* str::find: the 0-based index of the first occurrence of pat, or None.
find(chars, pat) ==
    LET at == {i \in 0..(Len(chars) - Len(pat)) :
                  SubSeq(chars, i + 1, i + Len(pat)) = pat}
    IN  IF at = {} THEN None ELSE Some(CHOOSE i \in at : \A j \in at : i <= j)

detect_list_indent(line) ==
    LET spaces(n) == [i \in 1..n |-> " "]
        dot_pos   == find(line, <<".", " ">>)
    IN  IF StartsWith(line, <<"-", " ">>) THEN spaces(2)
        ELSE IF StartsWith(line, <<"*", " ">>) THEN spaces(2)
        ELSE IF /\ dot_pos.some
                /\ dot_pos.v # 0
                /\ \A i \in 1..dot_pos.v :
                      line[i] \in {Digits09[d] : d \in 1..Len(Digits09)}
        THEN CASE dot_pos.v = 1 -> spaces(3)
               [] dot_pos.v = 2 -> spaces(4)
               [] dot_pos.v = 3 -> spaces(5)
               [] OTHER -> spaces(6)
        ELSE <<>>

\* The most digits a drawn list number has.
MaxDigits == 5

\* Lines: a number of up to MaxDigits digits, a bullet, a word or nothing,
\* then what may follow a marker, then a rest; and the sentence of the tests
\* that has a period in it and is no list item.
ListLines ==
    Joined(<< SeqsUpTo({"1", "0"}, MaxDigits)
                 \cup { <<"-">>, <<"*">>, <<"a">>, <<"a", "1">>, <<"1", "a">>,
                        <<"1", ".", "5">>, <<" ", "1">>, <<"+">> },
              { <<>>, <<".", " ">>, <<" ">>, <<".">>, <<".", ".", " ">>, <<" ", ".", " ">> },
              { <<>>, <<"x">>, <<"2", ".", " ", "x">> } >>)
    \cup { <<"V", "e", "r", "s", "i", "o", "n", " ", "2", ".", "0", " ",
             "i", "n", "t", "r", "o", "d", "u", "c", "e", "s">> }

ApplyDetectListIndent ==
    /\ fn = "detect_list_indent"
    /\ ~value.some
    /\ value' = Some(detect_list_indent(args.line))
    /\ UNCHANGED << fn, args >>

(***************************************************************************)
(* main.rs: format_box_with_title.  A text is a sequence of characters;    *)
(* "W" stands for a character two columns wide, every other character is   *)
(* one column wide, as the box-drawing characters are, written here "+",   *)
(* "-" and "|".  The styling of the borders has no width and is left out.  *)
(***************************************************************************)
\* UnicodeWidthStr::width
display_width(chars) ==
    Len(chars) + Cardinality({i \in 1..Len(chars) : chars[i] = "W"})

\* The box as its lines, or the panic that ends the program.  `remaining` is
\* a usize: where the subtraction goes below zero a build with overflow
\* checks panics at it, and a build without wraps it around, to a count that
\* str::repeat cannot allocate (65536 stands for 2^64 and 32767 for
\* isize::MAX).  max(0) leaves a usize as it is.
format_box_with_title(title, content, width, build) ==
    LET repeat(c, n)  == [i \in 1..n |-> c]
        title_width   == display_width(title)
        underflow     == width + 2 - title_width - 1 < 0
        remaining     == (width + 2 - title_width - 1) % 65536
        top           == <<"+", "-">> \o title \o repeat("-", Max(remaining, 0)) \o <<"+">>
        boxed(line)   == LET line_width == display_width(line)
                         IN  IF line_width <= width
                             THEN <<"|", " ">> \o line \o repeat(" ", width - line_width)
                                  \o <<" ", "|">>
                             ELSE <<"|", " ">> \o line \o <<" ", "|">>
        bottom        == <<"+">> \o repeat("-", width + 2) \o <<"+">>
    IN  IF underflow /\ build = "debug" THEN Err
        ELSE IF 3 * remaining > 32767 THEN Err
        ELSE Ok(<<top>> \o [i \in 1..Len(content) |-> boxed(content[i])] \o <<bottom>>)

\* The longest title and the longest content line drawn.
MaxBoxText == 3

BoxTexts == SeqsUpTo({"a", "W"}, MaxBoxText)

ApplyFormatBox ==
    /\ fn = "format_box_with_title"
    /\ ~value.some
    /\ value' = Some(format_box_with_title(args.title, args.content, args.width,
                                           args.build))
    /\ UNCHANGED << fn, args >>

(***************************************************************************)
(* The agent call between spawn and the end of wait_with_output, byte by   *)
(* byte (claude_client.rs 43-58, bookmark_generator.rs 95-110,             *)
(* commit_message_generator.rs 137-152).  The three pipes hold at most     *)
(* PipeCapacity bytes; a write to a full pipe and a read of an empty pipe  *)
(* whose other end is open block.  The parent writes the whole prompt,     *)
(* drops its end of the child's standard input, and only then reads the    *)
(* child's two output pipes, both at once, to their end.  The child is any *)
(* program that reads its standard input to the end, writes what it has to *)
(* write to its standard output and standard error, in the order it        *)
(* chooses, and exits when both are done.                                  *)
(***************************************************************************)
PipeCapacity == 1
\* The longest prompt, and the most a child writes to one of its outputs.
MaxPrompt == 2
MaxOutput == 2

VARIABLES
    parent_io,   \* the parent: the call it is in ("none", "write_all",
                 \* "wait_with_output", "returned") and the bytes of the prompt
                 \* it has still to write
    pipes,       \* the bytes in each pipe, and whether the parent still holds
                 \* its end of stdin
    child_io     \* the child: the call it is in ("none", "read", "stdout",
                 \* "stderr", "exited"), whether it has read the end of its
                 \* input, and the bytes it has still to write to each output

pipeVars == << parent_io, pipes, child_io >>

PipeIdle ==
    /\ parent_io = [call |-> "none", to_write |-> 0]
    /\ pipes = [stdin |-> 0, stdin_open |-> FALSE, stdout |-> 0, stderr |-> 0]
    /\ child_io = [call |-> "none", eof |-> FALSE, stdout |-> 0, stderr |-> 0]

\* The calls the child may make next: a read until it has read the end of
\* its input, a write while it has something to write, the exit after both.
NextCall(c) ==
    (IF c.eof THEN {} ELSE {"read"})
    \cup {s \in {"stdout", "stderr"} : c[s] > 0}
    \cup (IF c.eof /\ c.stdout = 0 /\ c.stderr = 0 THEN {"exited"} ELSE {})

\* stdin.write_all(prompt): one write of the loop.
ParentWrite ==
    /\ parent_io.call = "write_all"
    /\ parent_io.to_write > 0
    /\ pipes.stdin < PipeCapacity
    /\ pipes' = [pipes EXCEPT !.stdin = @ + 1]
    /\ parent_io' = [parent_io EXCEPT !.to_write = @ - 1]
    /\ UNCHANGED child_io

\* write_all returns and stdin is dropped; child.wait_with_output() starts.
ParentCloseStdin ==
    /\ parent_io.call = "write_all"
    /\ parent_io.to_write = 0
    /\ pipes' = [pipes EXCEPT !.stdin_open = FALSE]
    /\ parent_io' = [parent_io EXCEPT !.call = "wait_with_output"]
    /\ UNCHANGED child_io

\* wait_with_output reads what there is on either output pipe.
ParentRead ==
    /\ parent_io.call = "wait_with_output"
    /\ \E s \in {"stdout", "stderr"} :
          /\ pipes[s] > 0
          /\ pipes' = [pipes EXCEPT ![s] = @ - 1]
    /\ UNCHANGED << parent_io, child_io >>

\* Both output pipes are at their end and the child is waited for.
ParentReap ==
    /\ parent_io.call = "wait_with_output"
    /\ child_io.call = "exited"
    /\ pipes.stdout = 0 /\ pipes.stderr = 0
    /\ parent_io' = [parent_io EXCEPT !.call = "returned"]
    /\ UNCHANGED << pipes, child_io >>

\* The child reads a byte of its standard input, or its end.
ChildRead ==
    /\ child_io.call = "read"
    /\ \/ /\ pipes.stdin > 0
          /\ pipes' = [pipes EXCEPT !.stdin = @ - 1]
          /\ \E call \in NextCall(child_io) : child_io' = [child_io EXCEPT !.call = call]
       \/ /\ pipes.stdin = 0 /\ ~pipes.stdin_open
          /\ \E call \in NextCall([child_io EXCEPT !.eof = TRUE]) :
                child_io' = [child_io EXCEPT !.eof = TRUE, !.call = call]
          /\ UNCHANGED pipes
    /\ UNCHANGED parent_io

\* The child writes a byte to the output it is writing to.
ChildWrite ==
    /\ child_io.call \in {"stdout", "stderr"}
    /\ LET s == child_io.call
       IN  /\ pipes[s] < PipeCapacity
           /\ pipes' = [pipes EXCEPT ![s] = @ + 1]
           /\ \E call \in NextCall([child_io EXCEPT ![s] = @ - 1]) :
                 child_io' = [child_io EXCEPT ![s] = @ - 1, !.call = call]
    /\ UNCHANGED parent_io

PureIdle == fn = "none" /\ args = <<>> /\ value = None

(***************************************************************************)
(* The (File, File) arm of get_tree_diff in its steps (diff.rs 196-203):   *)
(* try_join! polls the two reads on the one task; each completes when the  *)
(* store answers, in either order.  The join returns the first error it    *)
(* sees, dropping the read still pending, or both contents once both reads *)
(* are done; only then is the rest of the arm evaluated.                   *)
(***************************************************************************)
VARIABLES
    before_content,   \* the read of before_id: None while pending, else its result
    after_content     \* the read of after_id

joinVars == << before_content, after_content >>

JoinIdle == before_content = None /\ after_content = None

FetchBefore ==
    /\ pc = "join"
    /\ before_content = None
    /\ before_content' = Some(read_file_content(entry.v.values.v.before.id))
    /\ UNCHANGED << commitVars, after_content >>

FetchAfter ==
    /\ pc = "join"
    /\ after_content = None
    /\ after_content' = Some(read_file_content(entry.v.values.v.after.id))
    /\ UNCHANGED << commitVars, before_content >>

\* Mutant: the join returns as soon as one read is done, the other content
\* taken as empty.
TryJoin_FirstReady ==
    /\ pc = "join"
    /\ before_content.some \/ after_content.some
    /\ LET content(c) == IF c.some /\ c.v.ok THEN c.v.v ELSE <<>>
           r == Modified(entry.v.path, Stored(content(before_content)),
                         Stored(content(after_content)),
                         should_collapse(collapse_matcher, entry.v.path),
                         max_diff_lines, max_diff_bytes)
       IN  /\ pc' = "diff"
           /\ diff_output' = r.v.lines
           /\ collapsed_count' = collapsed_count + r.v.collapsed
           /\ file_count' = IF r.v.lines # <<>> THEN file_count + 1 ELSE file_count
           /\ output' = output \o r.v.lines
           /\ UNCHANGED << result, locked_wc, diff >>
    /\ UNCHANGED << diffArgs, stream_pos, entry, budget, generator_calls, commit_message,
                    written, joinVars >>

\* try_join!(..)? and the rest of the arm (diff.rs 200-255).
TryJoin ==
    /\ pc = "join"
    /\ IF \/ before_content.some /\ ~before_content.v.ok
          \/ after_content.some /\ ~after_content.v.ok
       THEN /\ diff' = Some(Err)
            /\ Return("Err")
            /\ UNCHANGED << diff_output, collapsed_count, file_count, output >>
       ELSE /\ before_content.some /\ after_content.some
            /\ LET r == Modified(entry.v.path, Stored(before_content.v.v),
                                 Stored(after_content.v.v),
                                 should_collapse(collapse_matcher, entry.v.path),
                                 max_diff_lines, max_diff_bytes)
               IN  /\ pc' = "diff"
                   /\ diff_output' = r.v.lines
                   /\ collapsed_count' = collapsed_count + r.v.collapsed
                   /\ file_count' = IF r.v.lines # <<>> THEN file_count + 1 ELSE file_count
                   /\ output' = output \o r.v.lines
                   /\ UNCHANGED << result, locked_wc, diff >>
    /\ UNCHANGED << diffArgs, stream_pos, entry, budget, generator_calls, commit_message,
                    written, joinVars >>

(***************************************************************************)
(* The specifications.                                                     *)
(***************************************************************************)
vars == << commitVars, repoVars, bookmarkVars, agentVars, pureVars, joinVars, pipeVars >>

\* One run of the program: run_commit, with get_tree_diff and the aggregate
\* gate, or run_bookmark (main.rs 337-342).
Init ==
    /\ \/ /\ CommitAt("start") /\ RepoAt
          /\ BookmarkAt("idle") /\ prefix = None /\ dry_run = FALSE
       \/ /\ CommitAt("idle") /\ RepoAt
          /\ BookmarkAt("start") /\ prefix \in Prefixes /\ dry_run \in BOOLEAN
    /\ caller = "none" /\ base_args = <<>> /\ AgentAt("idle")
    /\ PureIdle
    /\ JoinIdle
    /\ PipeIdle

Next ==
    \/ (StartMutation /\ UNCHANGED << bookmarkVars, agentVars, pureVars, joinVars, pipeVars >>)
    \/ (Snapshot /\ UNCHANGED << bookmarkVars, agentVars, pureVars, joinVars, pipeVars >>)
    \/ (CallTreeDiff /\ UNCHANGED << bookmarkVars, agentVars, pureVars, joinVars, pipeVars >>)
    \/ (NextEntry /\ UNCHANGED << repoVars, bookmarkVars, agentVars, pureVars, joinVars, pipeVars >>)
    \/ (EndIteration /\ UNCHANGED << repoVars, bookmarkVars, agentVars, pureVars, joinVars, pipeVars >>)
    \/ (StreamEnd /\ UNCHANGED << repoVars, bookmarkVars, agentVars, pureVars, joinVars, pipeVars >>)
    \/ (AggregateGate /\ UNCHANGED << repoVars, bookmarkVars, agentVars, pureVars, joinVars, pipeVars >>)
    \/ (Generate /\ UNCHANGED << repoVars, bookmarkVars, agentVars, pureVars, joinVars, pipeVars >>)
    \/ (OtherProcess /\ UNCHANGED << bookmarkVars, agentVars, pureVars, joinVars, pipeVars >>)
    \/ (CreateCommit /\ UNCHANGED << bookmarkVars, agentVars, pureVars, joinVars, pipeVars >>)
    \/ (CommitTransaction /\ UNCHANGED << repoVars, bookmarkVars, agentVars, pureVars, joinVars, pipeVars >>)
    \/ (StartFinish /\ UNCHANGED << repoVars, bookmarkVars, agentVars, pureVars, joinVars, pipeVars >>)
    \/ (FinishWorkingCopy /\ UNCHANGED << repoVars, bookmarkVars, agentVars, pureVars, joinVars, pipeVars >>)
    \/ (ResolveTarget /\ UNCHANGED << repoVars, commitVars, agentVars, pureVars, joinVars, pipeVars >>)
    \/ (MoveExisting /\ UNCHANGED << repoVars, commitVars, agentVars, pureVars, joinVars, pipeVars >>)
    \/ (CommitSummaries /\ UNCHANGED << repoVars, commitVars, agentVars, pureVars, joinVars, pipeVars >>)
    \/ (GenerateName /\ UNCHANGED << repoVars, commitVars, agentVars, pureVars, joinVars, pipeVars >>)
    \/ (SetGenerated /\ UNCHANGED << repoVars, commitVars, agentVars, pureVars, joinVars, pipeVars >>)

Spec == Init /\ [][Next]_vars

\* One call of the agent.
InitAgent ==
    /\ CommitAt("idle") /\ RepoAt
    /\ BookmarkAt("idle") /\ prefix = None /\ dry_run = FALSE
    /\ caller \in Callers /\ base_args \in BaseArgs /\ AgentAt("start")
    /\ PureIdle
    /\ JoinIdle
    /\ PipeIdle

NextAgent ==
    \/ (StartSpinner /\ UNCHANGED << repoVars, commitVars, bookmarkVars, pureVars, joinVars, pipeVars >>)
    \/ (Spawn /\ UNCHANGED << repoVars, commitVars, bookmarkVars, pureVars, joinVars, pipeVars >>)
    \/ (WritePrompt /\ UNCHANGED << repoVars, commitVars, bookmarkVars, pureVars, joinVars, pipeVars >>)
    \/ (CloseStdin /\ UNCHANGED << repoVars, commitVars, bookmarkVars, pureVars, joinVars, pipeVars >>)
    \/ (WaitWithOutput /\ UNCHANGED << repoVars, commitVars, bookmarkVars, pureVars, joinVars, pipeVars >>)
    \/ (MatchAndReturn /\ UNCHANGED << repoVars, commitVars, bookmarkVars, pureVars, joinVars, pipeVars >>)
    \/ (Validate /\ UNCHANGED << repoVars, commitVars, bookmarkVars, pureVars, joinVars, pipeVars >>)

SpecAgent == InitAgent /\ [][NextAgent]_vars

\* The pure functions, over their arguments.
InitPure ==
    /\ CommitAt("idle") /\ RepoAt
    /\ BookmarkAt("idle") /\ prefix = None /\ dry_run = FALSE
    /\ caller = "none" /\ base_args = <<>> /\ AgentAt("idle")
    /\ \/ /\ fn = "collapse_reason"
          /\ args \in [pattern_match : BOOLEAN, line_count : 0..3, byte_size : 0..3,
                        max_lines : 1..2, max_bytes : 1..2]
       \/ /\ fn = "format_added_removed_diff"
          /\ args \in
                [path_str : {Paths[1]}, is_added : BOOLEAN, max_lines : {MAX_LINES},
                 id : {Stored(Numbered(n)) : n \in 0..(MAX_LINES + MaxOverCap)}
                      \cup {Stored(<<BinLine>>),
                            Stored(Numbered(MAX_LINES + 1) \o <<BinLine>>),
                            Unreadable}]
       \/ /\ fn = "CommitMessageGenerator::generate"
          /\ args \in [tried : {None} \cup {Some(m) : m \in CommitMessages},
                        default_commit_message : DefaultCommitMessages]
       \/ /\ fn = "BookmarkGenerator::generate"
          /\ args \in [tried : {None} \cup {Some(n) : n \in BookmarkNames}]
       \/ fn = "detect_list_indent" /\ args \in [line : ListLines]
       \/ /\ fn = "format_box_with_title"
          /\ args \in [title : BoxTexts,
                        content : {<<>>} \cup {<<l>> : l \in BoxTexts}
                                        \cup {<<l, <<>>, <<"a">>>> : l \in BoxTexts},
                        width : {3, 4},
                        build : {"debug", "release"}]
    /\ value = None
    /\ JoinIdle
    /\ PipeIdle

NextPure ==
    \/ (ApplyCollapseReason /\ UNCHANGED << repoVars, commitVars, bookmarkVars, agentVars, joinVars, pipeVars >>)
    \/ (ApplyFormatAddedRemoved /\ UNCHANGED << repoVars, commitVars, bookmarkVars, agentVars, joinVars, pipeVars >>)
    \/ (ApplyCommitGenerate /\ UNCHANGED << repoVars, commitVars, bookmarkVars, agentVars, joinVars, pipeVars >>)
    \/ (ApplyBookmarkGenerate /\ UNCHANGED << repoVars, commitVars, bookmarkVars, agentVars, joinVars, pipeVars >>)
    \/ (ApplyDetectListIndent /\ UNCHANGED << repoVars, commitVars, bookmarkVars, agentVars, joinVars, pipeVars >>)
    \/ (ApplyFormatBox /\ UNCHANGED << repoVars, commitVars, bookmarkVars, agentVars, joinVars, pipeVars >>)

SpecPure == InitPure /\ [][NextPure]_vars

\* One (File, File) entry of get_tree_diff's loop, read by try_join!.
InitJoin ==
    /\ pc = "join" /\ result = "none" /\ locked_wc = TRUE
    /\ \E patterns \in CollapsePatterns : collapse_matcher = build_collapse_matcher(patterns)
    /\ max_diff_lines \in MaxDiffLines
    /\ max_diff_bytes \in MaxDiffBytes
    /\ \E e \in {x \in Entries : x.values.ok /\ x.values.v.before.t = "file"
                                                /\ x.values.v.after.t = "file"} :
          /\ entry = Some(e)
          /\ \E i \in 1..Len(Paths) : e.path = Paths[i] /\ stream_pos = i
    /\ diff_output = <<>> /\ output = <<>> /\ file_count = 0 /\ collapsed_count = 0
    /\ diff = None /\ budget = NoBudget /\ generator_calls = 0 /\ commit_message = None
    /\ commits = 0 /\ tx = "none" /\ wc_finished = FALSE
    /\ head_wc = 1 /\ wc_commit = Some(1) /\ rewritten = None
    /\ snapshot = Some([changed |-> TRUE, described |-> FALSE])
    /\ BookmarkAt("idle") /\ prefix = None /\ dry_run = FALSE
    /\ caller = "none" /\ base_args = <<>> /\ AgentAt("idle")
    /\ PureIdle
    /\ JoinIdle
    /\ PipeIdle

NextJoin ==
    \/ (FetchBefore /\ UNCHANGED << repoVars, bookmarkVars, agentVars, pureVars, pipeVars >>)
    \/ (FetchAfter /\ UNCHANGED << repoVars, bookmarkVars, agentVars, pureVars, pipeVars >>)
    \/ (TryJoin /\ UNCHANGED << repoVars, bookmarkVars, agentVars, pureVars, pipeVars >>)

SpecJoin == InitJoin /\ [][NextJoin]_vars

\* One agent call from the spawn on, the parent and the child at their pipes.
InitPipe ==
    /\ CommitAt("idle") /\ RepoAt
    /\ BookmarkAt("idle") /\ prefix = None /\ dry_run = FALSE
    /\ caller = "none" /\ base_args = <<>> /\ AgentAt("idle")
    /\ PureIdle
    /\ JoinIdle
    /\ parent_io \in [call : {"write_all"}, to_write : 1..MaxPrompt]
    /\ pipes = [stdin |-> 0, stdin_open |-> TRUE, stdout |-> 0, stderr |-> 0]
    /\ \E c \in [call : {"none"}, eof : {FALSE},
                  stdout : 0..MaxOutput, stderr : 0..MaxOutput] :
          \E call \in NextCall(c) : child_io = [c EXCEPT !.call = call]

NextPipe ==
    \/ (ParentWrite /\ UNCHANGED << repoVars, commitVars, bookmarkVars, agentVars, pureVars, joinVars >>)
    \/ (ParentCloseStdin /\ UNCHANGED << repoVars, commitVars, bookmarkVars, agentVars, pureVars, joinVars >>)
    \/ (ParentRead /\ UNCHANGED << repoVars, commitVars, bookmarkVars, agentVars, pureVars, joinVars >>)
    \/ (ParentReap /\ UNCHANGED << repoVars, commitVars, bookmarkVars, agentVars, pureVars, joinVars >>)
    \/ (ChildRead /\ UNCHANGED << repoVars, commitVars, bookmarkVars, agentVars, pureVars, joinVars >>)
    \/ (ChildWrite /\ UNCHANGED << repoVars, commitVars, bookmarkVars, agentVars, pureVars, joinVars >>)

SpecPipe == InitPipe /\ [][NextPipe]_vars

(***************************************************************************)
(* The claims.  What follows states each claim over the model and is no    *)
(* part of the model itself.                                               *)
(***************************************************************************)

\* An entry has just been rendered by get_tree_diff's loop.
Rendering == pc = "diff" /\ entry.some

Shape(e) ==
    IF ~e.values.ok THEN "error"
    ELSE LET b == e.values.v.before.t
             a == e.values.v.after.t
         IN  IF b = "absent" /\ a = "file" THEN "added"
             ELSE IF b = "file" /\ a = "absent" THEN "deleted"
             ELSE IF b = "file" /\ a = "file" THEN "modified"
             ELSE "other"

BeforeId(e) == e.values.v.before.id
AfterId(e) == e.values.v.after.id

\* The file ids the renderer reads for an entry.
IdsRead(e) ==
    CASE Shape(e) = "added" -> {AfterId(e)}
      [] Shape(e) = "deleted" -> {BeforeId(e)}
      [] Shape(e) = "modified" -> {BeforeId(e), AfterId(e)}
      [] OTHER -> {}

\* A Modified entry whose two sides are both valid UTF-8.
ModifiedText(e) ==
    /\ Shape(e) = "modified"
    /\ \A id \in IdsRead(e) : id.readable /\ IsUtf8(id.content)

PatternMatch(e) == should_collapse(collapse_matcher, e.path)

RECURSIVE LcsLen(_, _)
\* The length of a longest common subsequence of two texts.
LcsLen(a, b) ==
    IF a = <<>> \/ b = <<>> THEN 0
    ELSE IF Head(a) = Head(b) THEN 1 + LcsLen(Tail(a), Tail(b))
    ELSE Max(LcsLen(Tail(a), b), LcsLen(a, Tail(b)))

\* The size of the line-level diff: inserted + deleted lines.
LineDiffSize(e) ==
    Len(BeforeId(e).content) + Len(AfterId(e).content)
        - 2 * LcsLen(BeforeId(e).content, AfterId(e).content)

LongerSideBytes(e) == Max(ByteLen(BeforeId(e).content), ByteLen(AfterId(e).content))

\* A rendering that is the one-line collapsed summary with this reason.
IsSummary(out, path_str, reason) ==
    /\ Len(out) = 2
    /\ out[1] = GitLine(path_str)
    /\ out[2].k = "summary"
    /\ out[2].reason = reason

IsCollapsed(out) == \E i \in 1..Len(out) : out[i].k = "summary"

\* A rendering that is a unified diff of n changed lines.
IsUnifiedDiff(out, path_str, n) ==
    /\ out # <<>>
    /\ out[1] = GitLine(path_str)
    /\ \A i \in 1..Len(out) : out[i].k \notin {"summary", "binmod", "binary", "status"}
    /\ KindCount(out, "plus") + KindCount(out, "minus") = n
    /\ n > 0 => KindCount(out, "hunk") >= 1

\* C1 as stated: a text Modified entry that matches no pattern and whose
\* line-level diff has at most per_file_max_lines lines is rendered as a unified
\* diff and never collapsed, whatever the byte length of its two contents.
C1_AsStated ==
    (Rendering /\ ModifiedText(entry.v) /\ ~PatternMatch(entry.v)
        /\ LineDiffSize(entry.v) <= max_diff_lines)
    => IsUnifiedDiff(diff_output, entry.v.path, LineDiffSize(entry.v))

\* C1 amended: for a text Modified entry that matches no pattern and whose
\* line-level diff (inserted + deleted lines, not the files' line counts) has
\* at most per_file_max_lines lines, the entry is rendered as a unified diff
\* when neither content is longer than per_file_max_bytes bytes, and is
\* collapsed with the reason "exceeds size limit" when one is.
C1_DiffSizeDecides ==
    (Rendering /\ ModifiedText(entry.v) /\ ~PatternMatch(entry.v)
        /\ LineDiffSize(entry.v) <= max_diff_lines)
    => IF LongerSideBytes(entry.v) <= max_diff_bytes
       THEN IsUnifiedDiff(diff_output, entry.v.path, LineDiffSize(entry.v))
       ELSE IsSummary(diff_output, entry.v.path, "collapsed: exceeds size limit")

\* A small change to a file with more lines than the limit is rendered in full.
C1_Witness ==
    /\ Rendering /\ ModifiedText(entry.v) /\ ~PatternMatch(entry.v)
    /\ LineDiffSize(entry.v) > 0
    /\ LineDiffSize(entry.v) <= max_diff_lines
    /\ Len(BeforeId(entry.v).content) > max_diff_lines
    /\ IsUnifiedDiff(diff_output, entry.v.path, LineDiffSize(entry.v))

\* C2 as stated: every Added, Deleted or Modified entry, text or binary, whose
\* path matches a configured collapse glob is rendered as the one-line summary
\* with the pattern-match reason and is counted as collapsed.
C2_AsStated ==
    (Rendering /\ Shape(entry.v) \in {"added", "deleted", "modified"}
        /\ PatternMatch(entry.v))
    => /\ IsSummary(diff_output, entry.v.path, "collapsed: matches pattern")
       /\ collapsed_count = KindCount(output, "summary")

\* The line count the collapse decision uses: the content's lines for an added
\* or deleted file, the line-level diff's size for a modified one.
ChangeLines(e) ==
    CASE Shape(e) = "added" -> Len(AfterId(e).content)
      [] Shape(e) = "deleted" -> Len(BeforeId(e).content)
      [] Shape(e) = "modified" -> LineDiffSize(e)

ChangeBytes(e) ==
    CASE Shape(e) = "added" -> ByteLen(AfterId(e).content)
      [] Shape(e) = "deleted" -> ByteLen(BeforeId(e).content)
      [] Shape(e) = "modified" -> LongerSideBytes(e)

\* C4: an Added, Deleted or text Modified entry that matches no pattern is
\* collapsed with the line-limit reason when its line count is greater than
\* per_file_max_lines, and is not collapsed when its line count equals
\* per_file_max_lines and its byte size is at most per_file_max_bytes.
C4_LineLimit ==
    (Rendering /\ ~PatternMatch(entry.v)
        /\ (Shape(entry.v) \in {"added", "deleted"} \/ ModifiedText(entry.v)))
    => /\ ChangeLines(entry.v) > max_diff_lines
            => IsSummary(diff_output, entry.v.path, "collapsed: exceeds line limit")
       /\ (ChangeLines(entry.v) = max_diff_lines /\ ChangeBytes(entry.v) <= max_diff_bytes)
            => ~IsCollapsed(diff_output)

\* An entry one line over the limit, and over the byte limit too, collapsed
\* for its lines.
C4_Witness ==
    /\ Rendering /\ ~PatternMatch(entry.v)
    /\ Shape(entry.v) = "deleted"
    /\ ChangeLines(entry.v) = max_diff_lines + 1
    /\ ChangeBytes(entry.v) > max_diff_bytes
    /\ IsSummary(diff_output, entry.v.path, "collapsed: exceeds line limit")

\* C6: once the diff is assembled and not empty, a diff of more than
\* max_total_lines lines or more than max_total_bytes bytes makes run_commit
\* fail, with the generator never called and no commit created; any other
\* diff passes the gate.
C6_AggregateGate ==
    (diff.some /\ diff.v.ok /\ diff.v.v # <<>> /\ pc # "diffed")
    => LET lines == Len(diff.v.v)
           bytes == TextBytes(diff.v.v)
       IN  IF lines > budget.max_lines \/ bytes > budget.max_bytes
           THEN /\ pc = "done" /\ result = "Err"
                /\ generator_calls = 0 /\ ~commit_message.some /\ commits = 0
           ELSE pc = "generate" \/ generator_calls = 1

\* A diff of exactly max_total_lines + 1 lines, within the byte limit, refused.
C6_Witness ==
    /\ diff.some /\ diff.v.ok /\ pc = "done"
    /\ Len(diff.v.v) = budget.max_lines + 1
    /\ TextBytes(diff.v.v) <= budget.max_bytes
    /\ result = "Err" /\ generator_calls = 0 /\ commits = 0

\* The entry itself, or a file the renderer reads for it, fails to read.
ReadFails(e) == ~e.values.ok \/ \E id \in IdsRead(e) : ~id.readable

\* C7: a read error on an entry aborts the pass: get_tree_diff returns the
\* error, never a diff text, and run_commit fails without calling the generator.
C7_ReadErrorAborts ==
    (entry.some /\ ReadFails(entry.v))
    => /\ diff = Some(Err)
       /\ pc = "done" /\ result = "Err"
       /\ generator_calls = 0 /\ commits = 0

\* A read error after an earlier entry was rendered.
C7_Witness ==
    /\ entry.some /\ ReadFails(entry.v) /\ entry.v.values.ok
    /\ output # <<>>
    /\ diff = Some(Err)

\* C3: the reason of a collapsed file follows a fixed precedence: a pattern
\* match gives "matches pattern" whatever the sizes; else a line count over
\* max_lines gives "exceeds line limit" whatever the byte size; else a byte
\* size over max_bytes gives "exceeds size limit".
C3_ReasonPrecedence ==
    (fn = "collapse_reason" /\ value.some)
    => /\ args.pattern_match => value.v = "collapsed: matches pattern"
       /\ (~args.pattern_match /\ args.line_count > args.max_lines)
            => value.v = "collapsed: exceeds line limit"
       /\ (~args.pattern_match /\ args.line_count <= args.max_lines
             /\ args.byte_size > args.max_bytes)
            => value.v = "collapsed: exceeds size limit"

\* Both limits exceeded and no pattern match: the line limit is the reason.
C3_Witness ==
    /\ fn = "collapse_reason" /\ value.some
    /\ ~args.pattern_match
    /\ args.line_count > args.max_lines /\ args.byte_size > args.max_bytes
    /\ value.v = "collapsed: exceeds line limit"

\* C5: for an added or deleted UTF-8 file of n lines rendered with cap
\* max_lines, the output holds the first min(n, cap) lines, each with its '+'
\* or '-' prefix, in order; no trailer when n <= cap; and when n > cap exactly
\* one trailer, the last line, "... (n - cap more lines)".
C5_Truncation ==
    (fn = "format_added_removed_diff" /\ value.some
        /\ args.id.readable /\ IsUtf8(args.id.content))
    => LET out    == value.v.v
           n      == Len(args.id.content)
           cap    == args.max_lines
           kind   == IF args.is_added THEN "plus" ELSE "minus"
           sign   == IF args.is_added THEN "+" ELSE "-"
           shown  == IF n <= cap THEN n ELSE cap
       IN  /\ value.v.ok
           /\ KindCount(out, kind) = shown
           /\ KindCount(out, "plus") + KindCount(out, "minus") = shown
           /\ \A i \in 1..shown : out[4 + i] = Line(kind, sign \o args.id.content[i])
           /\ IF n <= cap
              THEN KindCount(out, "trailer") = 0 /\ Len(out) = 4 + n
              ELSE /\ KindCount(out, "trailer") = 1
                   /\ Len(out) = 4 + cap + 1
                   /\ out[Len(out)] = Line("trailer", "... (" \o ToString(n - cap)
                                                      \o " more lines)")

\* A file two lines over the cap, rendered with the trailer "... (2 more lines)".
C5_Witness ==
    /\ fn = "format_added_removed_diff" /\ value.some /\ value.v.ok
    /\ args.id.readable /\ IsUtf8(args.id.content)
    /\ Len(args.id.content) = args.max_lines + 2
    /\ value.v.v[Len(value.v.v)] = Line("trailer", "... (2 more lines)")

\* C8: a call whose spawn failed, whose write of the prompt failed, or whose
\* process exited with a non-zero status returns None, whatever the process
\* wrote to its standard output.
C8_FailureIsNone ==
    (apc = "returned"
        /\ (failed_at \in {"spawn", "write"}
              \/ (io.some /\ io.v.ok /\ io.v.v.status # 0)))
    => ret = Some(None)

\* A non-zero exit with a well-formed structured_output on standard output.
C8_Witness ==
    /\ apc = "returned" /\ io.some /\ io.v.ok /\ io.v.v.status = 1
    /\ io.v.v.stdout.json = Some(JObj([k \in {"structured_output"} |-> BookmarkPayload]))
    /\ ret = Some(None)

\* The structured_output of the last element of type "result", if that
\* element has one.
LastResultOutput(items) ==
    LET results == {i \in 1..Len(items) :
                      /\ items[i].t = "object"
                      /\ "type" \in DOMAIN items[i].fields
                      /\ items[i].fields["type"] = JStr(ResultTag)}
    IN  IF results = {} THEN None
        ELSE LET last == items[CHOOSE i \in results : \A j \in results : j <= i]
             IN  IF "structured_output" \in DOMAIN last.fields
                 THEN Some(last.fields["structured_output"])
                 ELSE None

\* The process exited with status 0 and wrote this JSON document.
Succeeded == apc = "returned" /\ io.some /\ io.v.ok /\ io.v.v.status = 0
WroteArray == io.v.v.stdout.json.some /\ io.v.v.stdout.json.v.t = "array"

\* C9: for a standard output that is a JSON array, the value returned is the
\* structured_output of the last element whose type is "result": elements of
\* another type are ignored, and a last result element without the field
\* gives None, with no fallback to an earlier one.  The bookmark generator
\* selects the same element and reads its "bookmark".
C9_LastResult ==
    (Succeeded /\ WroteArray /\ caller \in {"invoke_claude", "BookmarkGenerator"})
    => LET selected == LastResultOutput(io.v.v.stdout.json.v.items)
       IN  IF caller = "invoke_claude" THEN ret = Some(selected)
           ELSE /\ ~selected.some => ret = Some(None)
                /\ selected = Some(BookmarkPayload) => ret = Some(Some(<<"a", "-", "b">>))

\* Two result elements, the last without structured_output: None.
C9_Witness ==
    /\ Succeeded /\ WroteArray /\ caller = "invoke_claude"
    /\ LET items == io.v.v.stdout.json.v.items
       IN  /\ Len(items) = 2
           /\ items[1] = JObj([k \in {"type", "structured_output"} |->
                                 IF k = "type" THEN JStr(ResultTag) ELSE BookmarkPayload])
           /\ items[2] = JObj([k \in {"type"} |-> JStr(ResultTag)])
    /\ ret = Some(None)

\* C10: on exit status 0 invoke_claude returns Some(v) exactly when the
\* standard output parses as JSON and is an object with a structured_output
\* field of value v, or an array whose last result element has one; for any
\* other document, and for output that is no JSON, it returns None.
C10_SomeExactlyWhen ==
    (Succeeded /\ caller = "invoke_claude")
    => LET out == io.v.v.stdout
       IN  ret = Some(IF ~out.json.some THEN None
                      ELSE IF out.json.v.t = "object"
                           THEN IF "structured_output" \in DOMAIN out.json.v.fields
                                THEN Some(out.json.v.fields["structured_output"])
                                ELSE None
                      ELSE IF out.json.v.t = "array"
                           THEN LastResultOutput(out.json.v.items)
                      ELSE None)

\* A single object whose structured_output is null: Some(null).
C10_Witness ==
    /\ Succeeded /\ caller = "invoke_claude"
    /\ io.v.v.stdout.json = Some(JObj([k \in {"structured_output"} |-> JNull]))
    /\ ret = Some(Some(JNull))

\* The elements of a sequence.
Range(seq) == {seq[i] : i \in 1..Len(seq)}

\* The process has been spawned: its argument vector is fixed.
Spawned == child.some

\* The prompt went through standard input, which was closed before the caller
\* began to wait, and is no argument.
PromptOnStdinOnly ==
    /\ Spawned => Prompt \notin Range(child.v.argv)
    /\ (Spawned /\ apc = "wait") => child.v.stdin = <<Prompt>> /\ ~child.v.stdin_open
    /\ (Spawned /\ child.v.waited) => child.v.stdin = <<Prompt>> /\ ~child.v.stdin_open

C12_AsStated == apc = "returned" => spinner = "cleared"

\* The title grammar <type>[(scope)][!]: <description>, stated by the places
\* where its parts end: a type of one or more letters a-z, up to t; a scope
\* from "(" to the first ")" after it with text between, up to s; a "!", up to
\* b; a colon, a white-space character (a space, or a tab), and a description
\* of one character at least.
TitleShape(line) ==
    LET n == Len(line)
    IN  \E t \in 1..n :
          /\ \A i \in 1..t : line[i] \in ClassAz
          /\ \E s \in {t} \cup ((t + 3)..n) :
               /\ s # t => /\ line[t + 1] = "("
                           /\ line[s] = ")"
                           /\ \A i \in (t + 2)..(s - 1) : line[i] # ")"
               /\ \E b \in {s, s + 1} :
                    /\ b # s => (b <= n /\ line[b] = "!")
                    /\ b + 3 <= n
                    /\ line[b + 1] = ":"
                    /\ line[b + 2] \in {" ", "\t"}

\* generate has been applied to a text that try_generate returned.
CommitGenerated ==
    fn = "CommitMessageGenerator::generate" /\ value.some /\ args.tried.some

\* The first line of the generated text, trimmed.
TitleOf(message) == Trim(FirstLine(message))

\* One text is the end of another.
IsSuffix(part, whole) ==
    /\ Len(part) <= Len(whole)
    /\ SubSeq(whole, Len(whole) - Len(part) + 1, Len(whole)) = part

\* C13: when generation yields a text m, generate returns Some; the result is
\* m itself when m's first line has the shape of a conventional title, and
\* else the default commit message, a blank line and m in full, so that m is
\* the end of the result in both cases.
C13_PrefixNotDiscard ==
    CommitGenerated
    => LET m == args.tried.v
       IN  /\ value.v.some
           /\ IsSuffix(m, value.v.v)
           /\ IF TitleShape(TitleOf(m))
              THEN value.v.v = m
              ELSE /\ SubSeq(value.v.v, 1, Len(args.default_commit_message))
                        = args.default_commit_message
                   /\ SubSeq(value.v.v, Len(args.default_commit_message) + 1,
                             Len(args.default_commit_message) + 2) = <<"\n", "\n">>
                   /\ Len(value.v.v) = Len(args.default_commit_message) + 2 + Len(m)

\* A text of two lines whose first line has no colon: the default message, a
\* blank line, and both lines.
C13_Witness ==
    /\ CommitGenerated
    /\ args.tried.v = <<"a", "\n", "y">>
    /\ args.default_commit_message = <<"w", "i", "p">>
    /\ value.v = Some(<<"w", "i", "p", "\n", "\n", "a", "\n", "y">>)

SlugShape(name) ==
    LET hyphens == {i \in 1..Len(name) : name[i] = "-"}
    IN  /\ name # <<>>
        /\ \A i \in 1..Len(name) : name[i] \in ClassAz09 \cup {"-"}
        /\ name[1] \in ClassAz
        /\ \A i \in hyphens : i < Len(name) /\ name[i + 1] \in ClassAz
        /\ Cardinality(hyphens) \in 1..5

\* generate has been applied to a text that try_generate returned.
BookmarkGenerated ==
    fn = "BookmarkGenerator::generate" /\ value.some /\ args.tried.some

\* C15 as stated: generate returns Some(name) only for a name of 2 to 6
\* hyphen-joined segments of lowercase letters and digits that start with a
\* letter, and returns None for every text that, trimmed, is no such name.
C15_AsStated ==
    BookmarkGenerated
    => /\ value.v.some => SlugShape(value.v.v)
       /\ ~SlugShape(Trim(args.tried.v)) => value.v = None

\* C15 amended: generate returns Some(name) only for such a name, which is
\* the generated text trimmed and lower-cased; and it returns None for every
\* text that, trimmed and lower-cased, is no such name.
C15_SlugOrNone ==
    BookmarkGenerated
    => LET name == to_lowercase(Trim(args.tried.v))
       IN  /\ value.v.some => (SlugShape(value.v.v) /\ value.v.v = name)
           /\ ~SlugShape(name) => value.v = None

\* The names of the validator's examples.
AddUserAuth ==
    <<"a", "d", "d", "-", "u", "s", "e", "r", "-", "a", "u", "t", "h">>
AddUserCaps ==
    <<"A", "d", "d", "-", "U", "s", "e", "r">>
SevenSegments ==
    <<"a", "-", "b", "-", "c", "-", "d", "-", "e", "-", "f", "-", "g">>
AddUserLower ==
    <<"a", "d", "d", "-", "u", "s", "e", "r">>

\* Seven segments: discarded.
C15_Witness ==
    /\ BookmarkGenerated
    /\ args.tried.v = SevenSegments
    /\ value.v = None

\* C16 as stated: "Add-User" gives None, "add-user-auth" passes, "a" and
\* "a-b-c-d-e-f-g" give None.
C16_AsStated ==
    BookmarkGenerated
    => /\ args.tried.v = AddUserCaps => value.v = None
       /\ args.tried.v = AddUserAuth => value.v = Some(AddUserAuth)
       /\ args.tried.v = <<"a">> => value.v = None
       /\ args.tried.v = SevenSegments => value.v = None

\* C16 amended: "Add-User" does not match the grammar as it is written, but
\* generate lower-cases a name before the check and returns "add-user" for
\* it; "add-user-auth" passes, "a" and "a-b-c-d-e-f-g" give None.
C16_Examples ==
    BookmarkGenerated
    => /\ args.tried.v = AddUserCaps
            => (~SlugShape(args.tried.v) /\ value.v = Some(AddUserLower))
       /\ args.tried.v = AddUserAuth => value.v = Some(AddUserAuth)
       /\ args.tried.v = <<"a">> => value.v = None
       /\ args.tried.v = SevenSegments => value.v = None

\* "Add-User" comes back as "add-user".
C16_Witness ==
    /\ BookmarkGenerated
    /\ args.tried.v = AddUserCaps
    /\ value.v = Some(AddUserLower)

\* The process exited with status 0.
ExitedZero == io.some /\ io.v.ok /\ io.v.v.status = 0

\* The structured_output that a standard output carries, if it does.
StructuredOutputOf(out) ==
    IF ~out.json.some THEN None
    ELSE IF out.json.v.t = "object"
         THEN IF "structured_output" \in DOMAIN out.json.v.fields
              THEN Some(out.json.v.fields["structured_output"])
              ELSE None
    ELSE IF out.json.v.t = "array" THEN LastResultOutput(out.json.v.items)
    ELSE None

\* The agent's text is empty: the standard output of the commit message call
\* is white space only; or the structured output of the bookmark call has no
\* "bookmark", or one that is no string, or one that is white space only.
EmptyPayload ==
    /\ ExitedZero
    /\ IF caller = "CommitMessageGenerator"
       THEN Trim(io.v.v.stdout.text) = <<>>
       ELSE /\ caller = "BookmarkGenerator"
            /\ LET so == StructuredOutputOf(io.v.v.stdout)
               IN  /\ so.some
                   /\ \/ so.v.t # "object"
                      \/ "bookmark" \notin DOMAIN so.v.fields
                      \/ so.v.fields["bookmark"].t # "string"
                      \/ Trim(so.v.fields["bookmark"].s) = <<>>

\* C17: an empty text is a failure of try_generate, which returns None for
\* it, so that generate returns None without matching anything and without
\* prepending the default message; and every text that generate does match
\* against a grammar is trimmed and not empty.
C17_EmptyIsFailure ==
    /\ (EmptyPayload /\ apc \in {"returned", "generated"}) => ret = Some(None)
    /\ (EmptyPayload /\ apc = "generated") => (generated = Some(None) /\ checked = {})
    /\ \A text \in checked : text # <<>> /\ Trim(text) = text

\* A commit message call whose process wrote white space only.
C17_Witness ==
    /\ caller = "CommitMessageGenerator"
    /\ ExitedZero /\ io.v.v.stdout.text = <<" ", "\n">>
    /\ apc = "generated" /\ generated = Some(None) /\ checked = {}

\* C18: the commit is written back (a transaction opened or committed, the
\* working copy finished) only after generate returned a message, and a run
\* in which generate returned None ends with an error and with nothing
\* written; and a bookmark with a generated name is set only after generate
\* returned that name, a run in which it returned None ending with an error
\* and no bookmark set.
C18_WriteAfterValidation ==
    /\ (tx # "none" \/ commits > 0 \/ wc_finished
           \/ pc \in {"commit", "tx", "finish", "finishing"})
         => (generator_calls = 1 /\ commit_message.some)
    /\ (pc = "done" /\ generator_calls > 0 /\ ~commit_message.some)
         => (result = "Err" /\ tx = "none" /\ commits = 0 /\ ~wc_finished /\ ~locked_wc)
    /\ \A i \in 1..Len(bookmarks) :
         bookmarks[i].generated
           => /\ name_calls = 1 /\ bookmark_name.some
              /\ bookmarks[i].name = IF prefix.some
                                     THEN prefix.v \o <<"/">> \o bookmark_name.v
                                     ELSE bookmark_name.v
    /\ (bpc = "done" /\ name_calls > 0 /\ ~bookmark_name.some)
         => (bresult = "Err" /\ bookmarks = <<>> /\ printed = <<>>)

\* A run whose generator returned None: an error, and nothing written.
C18_Witness ==
    /\ pc = "done" /\ generator_calls = 1 /\ ~commit_message.some
    /\ result = "Err" /\ tx = "none" /\ commits = 0

\* C19: the working-copy lock taken for the snapshot is free when the
\* generator is called and when run_commit has returned, by whatever path;
\* it is held only from start_mutation to the end of the size gate, and
\* again while create_commit finishes the working copy.
C19_LockReleased ==
    /\ pc = "generate" => ~locked_wc
    /\ pc = "done" => ~locked_wc
    /\ locked_wc => pc \in {"locked", "diff", "diffed", "finishing"}
    /\ generator_calls > 0 => pc \notin {"locked", "diff", "diffed"}

\* A run refused by the size gate has returned with the lock free.
C19_Witness ==
    /\ pc = "done" /\ result = "Err" /\ ~locked_wc
    /\ diff.some /\ diff.v.ok
    /\ budget.diff_lines > budget.max_lines
    /\ generator_calls = 0

\* A Modified entry, both sides read, of which one is no valid UTF-8.
ModifiedBinary(e) ==
    /\ Shape(e) = "modified"
    /\ \A id \in IdsRead(e) : id.readable
    /\ \E id \in IdsRead(e) : ~IsUtf8(id.content)

\* C20: a Modified entry of which a side is no valid UTF-8 is rendered as the
\* path header and the line "(binary file modified)", and nothing else,
\* whatever the sizes of its contents and the per-file limits, and is not
\* counted as collapsed.
C20_BinaryModified ==
    (Rendering /\ ModifiedBinary(entry.v))
    => /\ diff_output = << GitLine(entry.v.path), Line("binmod", "(binary file modified)") >>
       /\ collapsed_count = KindCount(output, "summary")
       /\ KindCount(diff_output, "summary") = 0

\* A binary pair with more lines than the per-file line limit.
C20_Witness ==
    /\ Rendering /\ ModifiedBinary(entry.v)
    /\ Len(AfterId(entry.v).content) > max_diff_lines
    /\ KindCount(diff_output, "binmod") = 1
    /\ collapsed_count = 0

\* An Added or Deleted entry whose content is read and is no valid UTF-8.
AddedOrDeletedBinary(e) ==
    /\ Shape(e) \in {"added", "deleted"}
    /\ \A id \in IdsRead(e) : id.readable /\ ~IsUtf8(id.content)

\* The content of an Added or Deleted entry is over a per-file limit.
OverPerFileLimit(e) ==
    \E id \in IdsRead(e) :
        LineCount(id.content) > max_diff_lines \/ ByteLen(id.content) > max_diff_bytes

\* C21: an Added or Deleted entry whose content is no valid UTF-8 and that is
\* not collapsed is rendered as the git-style header (path line, status line,
\* from and to lines) followed by the one marker line "(binary file)", with no
\* '+' or '-' content line and no trailer; the collapse is decided first, so
\* such an entry whose path matches a collapse pattern or whose content is
\* over a per-file limit is rendered as the one-line summary and counted.
C21_BinaryAddedDeleted ==
    (Rendering /\ AddedOrDeletedBinary(entry.v))
    => IF PatternMatch(entry.v) \/ OverPerFileLimit(entry.v)
       THEN /\ Len(diff_output) = 2
            /\ diff_output[1] = GitLine(entry.v.path)
            /\ diff_output[2].k = "summary"
            /\ diff_output[2].status =
                   (IF Shape(entry.v) = "added" THEN "new file" ELSE "deleted file")
            /\ collapsed_count >= 1
       ELSE /\ Len(diff_output) = 5
            /\ diff_output[1] = GitLine(entry.v.path)
            /\ diff_output[2] = Line("status", IF Shape(entry.v) = "added"
                                               THEN "new file" ELSE "deleted file")
            /\ diff_output[3].k = "from" /\ diff_output[4].k = "to"
            /\ diff_output[5] = Line("binary", "(binary file)")
            /\ KindCount(diff_output, "plus") + KindCount(diff_output, "minus")
                  + KindCount(diff_output, "trailer") + KindCount(diff_output, "summary") = 0

\* A binary file over the per-file line limit was added and is summarised.
C21_Witness ==
    /\ Rendering /\ AddedOrDeletedBinary(entry.v)
    /\ Shape(entry.v) = "added"
    /\ ~PatternMatch(entry.v) /\ OverPerFileLimit(entry.v)
    /\ KindCount(diff_output, "summary") = 1
    /\ KindCount(diff_output, "binary") = 0


\* C22: within one Modified entry the two reads run concurrently and the
\* rest of the arm starts only after both are done: whatever the order in
\* which they complete, the entry's rendering is the one that the two stored
\* contents determine; if a read fails, nothing is rendered for the entry
\* and the whole pass fails.
C22_JoinThenDiff ==
    /\ (pc = "diff" /\ entry.some)
       => /\ before_content.some /\ before_content.v.ok
          /\ after_content.some /\ after_content.v.ok
          /\ LET r == Modified(entry.v.path, BeforeId(entry.v), AfterId(entry.v),
                               PatternMatch(entry.v), max_diff_lines, max_diff_bytes)
             IN  r.ok /\ diff_output = r.v.lines /\ output = r.v.lines
                      /\ collapsed_count = r.v.collapsed
    /\ (pc = "join" /\ entry.some)
       => diff_output = <<>> /\ output = <<>> /\ diff = None
    /\ (pc = "done" /\ entry.some)
       => /\ result = "Err" /\ diff = Some(Err)
          /\ diff_output = <<>> /\ output = <<>>
          /\ \E id \in IdsRead(entry.v) : ~id.readable
    /\ (entry.some /\ before_content.some /\ after_content.some
           /\ \E id \in IdsRead(entry.v) : ~id.readable)
       => pc # "diff"

\* Both reads are done, in either order, and the pair was rendered as
\* a unified diff.
C22_Witness ==
    /\ pc = "diff" /\ entry.some
    /\ before_content.some /\ after_content.some
    /\ LineDiffSize(entry.v) > 0
    /\ IsUnifiedDiff(diff_output, entry.v.path, LineDiffSize(entry.v))


\* The loop of get_tree_diff takes an entry and renders it.
EntryStep == pc = "diff" /\ ~entry.some /\ entry'.some /\ pc' = "diff"

\* C23: the text get_tree_diff returns is the concatenation of the entries'
\* renderings in the order of the stream: every iteration appends its
\* rendering to the output so far and the output is what is returned; an entry
\* of a shape other than (absent, file), (file, absent) and (file, file)
\* adds nothing and is not counted as a rendered file; and the collapsed
\* count never exceeds the count of rendered files.
C23_Concatenation ==
    /\ [][ /\ EntryStep
              => /\ output' = output \o diff_output'
                 /\ file_count' = file_count + (IF diff_output' # <<>> THEN 1 ELSE 0)
                 /\ Shape(entry'.v) = "other"
                      => /\ diff_output' = <<>>
                         /\ output' = output
                         /\ file_count' = file_count
                         /\ collapsed_count' = collapsed_count
                 /\ Shape(entry'.v) \in {"added", "deleted", "modified"}
                      => diff_output' # <<>>
           /\ (pc = "diff" /\ entry.some /\ pc' = "diff" /\ ~entry'.some)
              => output' = output
           /\ (pc = "diff" /\ pc' = "diffed") => diff' = Some(Ok(output)) ]_vars
    /\ [](collapsed_count <= file_count)
    /\ []((pc = "diff" /\ entry.some) => IsSuffix(diff_output, output))

\* The second entry's rendering follows the first entry's, and one of the two
\* is a collapsed summary.
C23_Witness ==
    /\ Rendering
    /\ stream_pos = 2
    /\ diff_output # <<>>
    /\ Len(output) > Len(diff_output)
    /\ file_count = 2
    /\ collapsed_count = 1


\* run_commit returned at one of its exits before the diff: no change, or a
\* description already set.
EarlyExit ==
    /\ pc = "done" /\ snapshot.some
    /\ ~snapshot.v.changed \/ snapshot.v.described

\* run_commit returned with a diff that is empty after trimming.
EmptyDiffExit == pc = "done" /\ diff.some /\ diff.v.ok /\ TrimIsEmpty(diff.v.v)

\* Nothing was asked of the agent and nothing was written to the repository.
Untouched ==
    /\ generator_calls = 0 /\ commit_message = None
    /\ commits = 0 /\ tx = "none" /\ rewritten = None /\ ~wc_finished

\* C24: run_commit calls no agent, creates no commit and returns success
\* when (1) the snapshotted tree equals the parent tree, (2) the working-copy
\* commit has a description already, (3) the rendered diff is empty after
\* trimming, as it is when every changed entry has an unsupported shape.
C24_EarlyExits ==
    /\ EarlyExit => (result = "Ok" /\ Untouched /\ diff = None /\ ~locked_wc)
    /\ EmptyDiffExit => (result = "Ok" /\ Untouched /\ ~locked_wc)
    /\ (snapshot.some /\ (~snapshot.v.changed \/ snapshot.v.described)) => pc = "done"

\* The trees differ in an entry of an unsupported shape alone: the diff is
\* empty and run_commit returns success.
C24_Witness ==
    /\ EmptyDiffExit
    /\ snapshot = Some([changed |-> TRUE, described |-> FALSE])
    /\ stream_pos >= 1
    /\ result = "Ok" /\ Untouched


\* C30 as stated: the working-copy commit create_commit rewrites is the commit
\* run_commit inspected (whose description it found empty and whose parent
\* tree the diff was taken against), even if another process changes the
\* repository while the lock is released for the agent call.
C30_AsStated ==
    rewritten.some => (wc_commit.some /\ rewritten.v = wc_commit.v)


\* run_bookmark found a bookmark in the range and set one, successfully.
MovedExisting ==
    /\ bpc = "done" /\ bresult = "Ok"
    /\ existing_name.some /\ ~dry_run

\* The bookmark found in the range is where it was: set_bookmark acted on no
\* bookmark of its name.
LeftInRange ==
    /\ existing_name.some
    /\ \A i \in 1..Len(bookmarks) : bookmarks[i].name # existing_name.v

\* C25 as stated: when a commit of the range carries a local bookmark, that
\* bookmark is moved to the target commit and the generator is never invoked,
\* the final name being prefix/name unless the name starts with "prefix/"
\* already; only without an existing bookmark is a name generated, and a
\* generated name is always given the prefix when one is supplied.
C25_AsStated ==
    /\ existing_name.some => (name_calls = 0 /\ bookmark_name = None)
    /\ MovedExisting
       => /\ Len(bookmarks) = 1
          /\ bookmarks[1].name =
                (IF prefix.some /\ ~StartsWith(existing_name.v, prefix.v \o <<"/">>)
                 THEN prefix.v \o <<"/">> \o existing_name.v
                 ELSE existing_name.v)
          /\ ~bookmarks[1].generated
          /\ ~LeftInRange
    /\ (bpc = "done" /\ bresult = "Ok" /\ ~dry_run /\ ~existing_name.some)
       => /\ name_calls = 1 /\ bookmark_name.some
          /\ Len(bookmarks) = 1
          /\ bookmarks[1].name = (IF prefix.some THEN prefix.v \o <<"/">> ELSE <<>>)
                                     \o bookmark_name.v

\* C26: with --dry-run run_bookmark prints the final name and never calls
\* set_bookmark, so that no bookmark is created or moved, on the path of an
\* existing bookmark and on the path of a generated name alike.
C26_DryRunPrintsOnly ==
    dry_run
    => /\ bookmarks = <<>>
       /\ (bpc = "done" /\ bresult = "Ok")
          => LET name == IF existing_name.some THEN existing_name.v ELSE bookmark_name.v
                 final_name == IF prefix.some /\ ~(existing_name.some
                                     /\ StartsWith(name, prefix.v \o <<"/">>))
                               THEN prefix.v \o <<"/">> \o name
                               ELSE name
             IN  printed = << final_name >>
       /\ (bpc # "done" \/ bresult # "Ok") => printed = <<>>

\* A dry run on the path of a generated name, with a prefix.
C26_Witness ==
    /\ dry_run /\ bpc = "done" /\ bresult = "Ok"
    /\ ~existing_name.some /\ bookmark_name.some /\ prefix.some
    /\ Len(printed) = 1
    /\ bookmarks = <<>>


\* detect_list_indent has been applied to a line.
IndentDetected == fn = "detect_list_indent" /\ value.some

\* A line starts with the marker "N. " of n ASCII digits.
NumberMarker(line, n) ==
    /\ n >= 1 /\ Len(line) >= n + 2
    /\ \A i \in 1..n : line[i] \in {"0", "1", "2", "3", "4", "5", "6", "7", "8", "9"}
    /\ line[n + 1] = "." /\ line[n + 2] = " "

\* C27 as stated: detect_list_indent gives 2 spaces for a line that starts
\* with "- " or "* "; for a line that starts with "N. ", N one or more ASCII
\* digits, as many spaces as the marker is long (the digits and 2), for every
\* number of digits; and the empty indent for every other line, such as
\* "Version 2.0 introduces".
C27_AsStated ==
    IndentDetected
    => LET line == args.line
       IN  /\ \A i \in 1..Len(value.v) : value.v[i] = " "
           /\ IF StartsWith(line, <<"-", " ">>) \/ StartsWith(line, <<"*", " ">>)
              THEN Len(value.v) = 2
              ELSE IF \E n \in 1..Len(line) : NumberMarker(line, n)
              THEN \A n \in 1..Len(line) : NumberMarker(line, n) => Len(value.v) = n + 2
              ELSE value.v = <<>>


\* format_box_with_title has been applied.
BoxFormatted == fn = "format_box_with_title" /\ value.some

\* C28 as stated: for every title and content, format_box_with_title returns
\* a box of which every line (top border, content lines, bottom border) has
\* the display width width + 4: the top border does not underflow when the
\* title is wider than width + 1, and a content line wider than width gives
\* no wider line.
C28_AsStated ==
    BoxFormatted
    => /\ value.v.ok
       /\ Len(value.v.v) = Len(args.content) + 2
       /\ \A i \in 1..Len(value.v.v) : display_width(value.v.v[i]) = args.width + 4


\* The parent is in write_all with the pipe full, and the child is in a
\* write to an output pipe that is full and that the parent does not read:
\* neither call can return.
BothBlocked ==
    /\ parent_io.call = "write_all"
    /\ parent_io.to_write > 0 /\ pipes.stdin = PipeCapacity
    /\ child_io.call \in {"stdout", "stderr"}
    /\ pipes[child_io.call] = PipeCapacity

\* C29 as stated: with bounded pipe buffers, and whatever the interleaving
\* of the parent's write of the prompt and the child's writes to its
\* standard output and standard error, the parent, which writes the whole
\* prompt before it reads the child's output, and a child that would read
\* its input to the end and exit, never come to be both blocked for ever.
C29_AsStated == ~BothBlocked


=============================================================================
